---------------------------- MODULE Spec2Model ----------------------------
(***************************************************************************)
(* The compute-side asynchronous B+tree engine of rdmaNic (ComputeServer)  *)
(* together with the passive byte store it talks to (MemoryServer).        *)
(*                                                                         *)
(* Transport: every request of the engine goes through the StandardMem     *)
(* interface of the memory node that owns the address.  A memory node      *)
(* handles a request in one handler call (handleMemoryEvent) and answers   *)
(* from inside it.  Requests on one interface are handled in the order in  *)
(* which they were sent, and two memory nodes own disjoint addresses, so   *)
(* the store's effect and the payload of the answer are those of the       *)
(* moment the engine sent the request; the answers themselves are          *)
(* delivered to the engine in any order.                                   *)
(***************************************************************************)
EXTENDS Integers, Sequences, FiniteSets, TLC

(***************************************************************************)
(* Program constants (computeServer.cc:121-131, memoryServer.cc:34,403)    *)
(***************************************************************************)
MEMORY_BASE_ADDRESS == 268435456
MEMORY_SERVER_SIZE == 16777216
BTREE_LEVEL0_OFFSET == 0
BTREE_LEVEL1_OFFSET == 65536
BTREE_LEAF_OFFSET == 2097152
INTERNAL_SLOTS == 10000
LEAF_SLOTS == 100000
LOCK_REGION_START == 1048576
LOCK_REGION_END == 2097152
\* the fanout of a configuration that does not set btree_fanout
DEFAULT_FANOUT == 16

(***************************************************************************)
(* Bounds of the model                                                     *)
(***************************************************************************)
btree_fanout == 2
MaxMemoryNodes == 2
MaxKeyRange == 4
MaxOps == 4
MaxInFlight == 2
\* operations of a run that launches them one at a time
MaxSeqOps == 7

\* the clocked workload: operations in the queue, and the time scale
MaxTickOps == 3
MaxDuration == 5
MaxOpInterval == 2
MaxClockPeriod == 3

\* calls of the address functions on their own: the deepest level asked for
MaxProbeLevel == 3

\* requests sent straight to the memory nodes: compute nodes attached to a
\* memory node, words of a payload or of a read, largest word, requests
MaxComputeNodes == 2
MaxWords == 2
MaxPayload == 2
MaxMemRequests == 3
\* split probes: largest fanout and largest key
MaxSplitFanout == 3
MaxSplitKey == 4

\* every operation sends a bounded number of requests unless it runs in a cycle
MaxRequests == 1 + MaxSeqOps * (MaxKeyRange + 2)

VARIABLES
    num_memory_nodes,   \* configuration: N
    key_range,          \* configuration: keys are drawn from 0..key_range-1
    root_address,
    tree_height,
    next_node_id,
    pending_ops,        \* request id -> AsyncOperation
    next_req_id,        \* StandardMem request ids: a fresh one per request
    memory_blocks,      \* the memory nodes' stores: address -> bytes
    responses,          \* answers sent by the memory nodes, not yet delivered
    stat_ops_completed,
    launched,           \* operations taken from the workload queue so far
    ins_hist,           \* history per key: inserts launched / in flight / last completed
    search_result,      \* history: what the last finished search reported
    last_req,           \* history: the last request the engine sent
    current_time,       \* getCurrentSimTime()
    simulation_duration,
    clock_period,       \* configuration: the time between two calls of tick
    clock_on,           \* tick has not yet returned true
    pending_operations, \* the workload queue of generate_workload
    probe,              \* the last call of a function made on its own, and its result
    node_locks          \* the memory nodes' locks: lock address -> NodeLock

vars == << num_memory_nodes, key_range, root_address, tree_height, next_node_id,
           pending_ops, next_req_id, memory_blocks, responses,
           stat_ops_completed, launched, ins_hist, search_result, last_req,
           current_time, simulation_duration, clock_period, clock_on,
           pending_operations, probe, node_locks >>

(***************************************************************************)
(* BTreeNode and the node codec.  Arrays are indexed from 0 as in the      *)
(* source.  The payload of a request is the sequence of the node's words   *)
(* in layout order: the four header fields, then the key, value and child  *)
(* regions.                                                                *)
(***************************************************************************)
ZeroArray(n) == [i \in 0..(n - 1) |-> 0]

\* BTreeNode(fanout_size): the arrays are resized to the fanout
BTreeNodeFor(fanout) ==
    [ num_keys |-> 0, fanout |-> fanout, is_leaf |-> TRUE, node_address |-> 0,
      keys |-> ZeroArray(fanout),
      values |-> ZeroArray(fanout),
      children |-> ZeroArray(fanout + 1) ]

BTreeNode == BTreeNodeFor(btree_fanout)

\* sizeof(uint32_t)*2 + sizeof(bool) + sizeof(uint64_t) + keys + values + children
SerializedNodeSize(fanout) ==
    4 * 2 + 1 + 8 + fanout * 8 + fanout * 8 + (fanout + 1) * 8

get_serialized_node_size == SerializedNodeSize(btree_fanout)

HeaderWords == 4
\* number of 8-byte array words of a payload of get_serialized_node_size bytes
BodyWords == btree_fanout + btree_fanout + (btree_fanout + 1)

\* memcpy of cnt words of array arr into the body at word offset off
PutWords(body, off, arr, cnt) ==
    [p \in 1..Len(body) |->
        IF p - 1 >= off /\ p - 1 < off + cnt /\ (p - 1 - off) \in DOMAIN arr
        THEN arr[p - 1 - off] ELSE body[p]]

serialize_node(node) ==
    LET zero == [p \in 1..BodyWords |-> 0]
        b1 == PutWords(zero, 0, node.keys, node.fanout)
        b2 == PutWords(b1, node.fanout, node.values, node.fanout)
        b3 == PutWords(b2, node.fanout + node.fanout, node.children, node.fanout + 1)
    IN  << node.num_keys, node.fanout, (IF node.is_leaf THEN 1 ELSE 0), node.node_address >>
        \o b3

\* the fields of a payload that holds a whole header
decode_node(data) ==
    LET nk == data[1]
        fo == data[2]
        leaf == (data[3] # 0)
        size == Len(data) - HeaderWords
        word(off, i) == data[HeaderWords + off + i + 1]
        keysOK == nk > 0 /\ nk <= size
        off1 == IF keysOK THEN fo ELSE 0
        valsOK == leaf /\ nk > 0 /\ off1 + nk <= size
        off2 == off1 + fo
        chOK == (~leaf) /\ off2 + (nk + 1) <= size
    IN  [ num_keys |-> nk, fanout |-> fo, is_leaf |-> leaf, node_address |-> data[4],
          keys |-> [i \in 0..(btree_fanout - 1) |->
                        IF keysOK /\ i < nk THEN word(0, i) ELSE 0],
          values |-> [i \in 0..(btree_fanout - 1) |->
                        IF valsOK /\ i < nk THEN word(off1, i) ELSE 0],
          children |-> [i \in 0..btree_fanout |->
                        IF chOK /\ i < nk + 1 THEN word(off2, i) ELSE 0] ]

\* a decoder that takes a payload without a header for an internal node
deserialize_node_short_internal(data) ==
    IF Len(data) < HeaderWords THEN [BTreeNode EXCEPT !.is_leaf = FALSE]
    ELSE decode_node(data)

\* a payload shorter than the header yields the node the constructor made
deserialize_node(data) ==
    IF Len(data) < HeaderWords THEN BTreeNode
    ELSE decode_node(data)

(***************************************************************************)
(* Address map                                                             *)
(***************************************************************************)
calculate_tree_height(num_keys) ==
    IF num_keys = 0 THEN 1
    ELSE LET leaves_needed == (num_keys + btree_fanout - 1) \div btree_fanout
             RECURSIVE levels(_, _)
             levels(nodes_at_level, height) ==
                 IF nodes_at_level > 1
                 THEN levels((nodes_at_level + btree_fanout) \div (btree_fanout + 1), height + 1)
                 ELSE height
         IN  levels(leaves_needed, 1)

\* the band of a level inside a slab, for the tree height at the time of the call
LevelOffsetFor(node_size, height, node_id, level) ==
    IF level = 0 THEN BTREE_LEVEL0_OFFSET
    ELSE IF level < height - 1
         THEN BTREE_LEVEL1_OFFSET * level + (node_id % INTERNAL_SLOTS) * node_size
         ELSE BTREE_LEAF_OFFSET + (node_id % LEAF_SLOTS) * node_size

LevelOffset(node_id, level) ==
    LevelOffsetFor(get_serialized_node_size, tree_height, node_id, level)

\* allocate_node_address for a configured fanout (through the node size) and
\* the tree height at the time of the call
AllocateFor(node_size, height, node_id, level) ==
    LET memory_server == node_id % num_memory_nodes
        base_address == MEMORY_BASE_ADDRESS + memory_server * MEMORY_SERVER_SIZE
    IN  base_address + LevelOffsetFor(node_size, height, node_id, level)

allocate_node_address(node_id, level) ==
    AllocateFor(get_serialized_node_size, tree_height, node_id, level)

\* channel selection without the clamp to the primary interface
get_interface_unclamped(address) ==
    IF address < MEMORY_BASE_ADDRESS THEN num_memory_nodes
    ELSE (address - MEMORY_BASE_ADDRESS) \div MEMORY_SERVER_SIZE

\* GET_MEMORY_SERVER on uint64_t: an address below the base wraps to a huge index
get_interface_for_address(address) ==
    LET memory_server_id == IF address < MEMORY_BASE_ADDRESS
                            THEN num_memory_nodes
                            ELSE (address - MEMORY_BASE_ADDRESS) \div MEMORY_SERVER_SIZE
    IN  IF memory_server_id >= num_memory_nodes THEN 0 ELSE memory_server_id

(***************************************************************************)
(* Memory node (MemoryServer)                                              *)
(***************************************************************************)
ServerBase(memory_server_id) == MEMORY_BASE_ADDRESS + memory_server_id * MEMORY_SERVER_SIZE

is_address_in_range(memory_server_id, address) ==
    address >= ServerBase(memory_server_id)
    /\ address < ServerBase(memory_server_id) + MEMORY_SERVER_SIZE

is_lock_address(memory_server_id, address) ==
    address >= ServerBase(memory_server_id) + LOCK_REGION_START
    /\ address < ServerBase(memory_server_id) + LOCK_REGION_END

\* read_memory for a size in words: the first size words of the stored block
\* when it has that many, zeros otherwise
read_memory_sized(blocks, address, size) ==
    IF address \in DOMAIN blocks /\ size <= Len(blocks[address])
    THEN SubSeq(blocks[address], 1, size)
    ELSE [p \in 1..size |-> 0]

\* read_memory: the stored block, zeros when nothing was stored at the address
read_memory(blocks, address) ==
    IF address \in DOMAIN blocks THEN blocks[address]
    ELSE [p \in 1..(HeaderWords + BodyWords) |-> 0]

\* handle_rdma_read: no answer at all for an address outside the node's slab
ReadAnswered(address) == is_address_in_range(get_interface_for_address(address), address)

\* handle_rdma_write: dropped outside the slab; a lock request inside the lock
\* sub-range; stored otherwise
WriteAnswered(address) == is_address_in_range(get_interface_for_address(address), address)

write_memory(blocks, address, data) ==
    IF ~WriteAnswered(address) THEN blocks
    ELSE IF is_lock_address(get_interface_for_address(address), address) THEN blocks
    ELSE [a \in DOMAIN blocks \cup {address} |-> IF a = address THEN data ELSE blocks[a]]

NodeLock == [is_locked |-> FALSE, owner_id |-> 0, waiting_queue |-> << >>]

acquire_lock(locks, lock_address, requester_id) ==
    IF lock_address \notin DOMAIN locks
    THEN [a \in DOMAIN locks \cup {lock_address} |->
            IF a = lock_address
            THEN [NodeLock EXCEPT !.is_locked = TRUE, !.owner_id = requester_id]
            ELSE locks[a]]
    ELSE IF ~locks[lock_address].is_locked
         THEN [locks EXCEPT ![lock_address] =
                  [@ EXCEPT !.is_locked = TRUE, !.owner_id = requester_id]]
         ELSE [locks EXCEPT ![lock_address] =
                  [@ EXCEPT !.waiting_queue = Append(@, requester_id)]]

release_lock(locks, lock_address, requester_id) ==
    IF lock_address \in DOMAIN locks
       /\ locks[lock_address].is_locked
       /\ locks[lock_address].owner_id = requester_id
    THEN IF locks[lock_address].waiting_queue # << >>
         THEN [locks EXCEPT ![lock_address] =
                  [@ EXCEPT !.is_locked = TRUE,
                            !.owner_id = Head(locks[lock_address].waiting_queue),
                            !.waiting_queue = Tail(@)]]
         ELSE [locks EXCEPT ![lock_address] =
                  [@ EXCEPT !.is_locked = FALSE, !.owner_id = 0]]
    ELSE locks

\* the lock part of handle_rdma_write at memory node memory_server_id: the
\* first word of the payload is the lock value, 0 to release
lock_write(locks, memory_server_id, address, data) ==
    IF is_address_in_range(memory_server_id, address)
       /\ is_lock_address(memory_server_id, address)
    THEN LET lock_value == data[1]
             requester_id == IF lock_value = 0 THEN 0 ELSE lock_value
         IN  IF lock_value = 0 THEN release_lock(locks, address, requester_id)
             ELSE acquire_lock(locks, address, requester_id)
    ELSE locks

(***************************************************************************)
(* Pure parts of the engine's handlers                                     *)
(***************************************************************************)
\* first index i < num_keys with ~(keys[i] < key), else num_keys: the scan
\* "while (pos < num_keys && keys[pos] < key) pos++" of every insertion
RECURSIVE ScanLess(_, _, _)
ScanLess(node, key, pos) ==
    IF pos < node.num_keys /\ pos \in DOMAIN node.keys /\ node.keys[pos] < key
    THEN ScanLess(node, key, pos + 1)
    ELSE pos

InsertPos(node, key) == ScanLess(node, key, 0)

\* smallest i < num_keys with key < keys[i], else num_keys
RECURSIVE ScanChild(_, _, _)
ScanChild(node, key, i) ==
    IF i < node.num_keys /\ i \in DOMAIN node.keys
    THEN IF key < node.keys[i] THEN i ELSE ScanChild(node, key, i + 1)
    ELSE node.num_keys

get_child_index_for_key(node, key) ==
    IF node.num_keys = 0 THEN 0 ELSE ScanChild(node, key, 0)

\* traversal stops here and the leaf handler runs
ReachedLeaf(node, current_level) ==
    node.is_leaf \/ current_level >= tree_height - 1

\* a leaf handler that takes one key too many
LeafHasSpaceInclusive(leaf) == leaf.num_keys <= btree_fanout

\* the leaf handler inserts in place, otherwise it splits
LeafHasSpace(leaf) == leaf.num_keys < btree_fanout

IsDuplicate(leaf, key) ==
    LET insert_pos == InsertPos(leaf, key)
    IN  insert_pos < leaf.num_keys /\ leaf.keys[insert_pos] = key

\* an insert that puts the pair behind the last one, wherever the key belongs
LeafInsertAtEnd(leaf, key, value) ==
    [leaf EXCEPT !.keys[leaf.num_keys] = key,
                 !.values[leaf.num_keys] = value,
                 !.num_keys = leaf.num_keys + 1]

\* the leaf after the in-place insert or update of (key, value)
LeafInsert(leaf, key, value) ==
    LET insert_pos == InsertPos(leaf, key)
    IN  IF IsDuplicate(leaf, key)
        THEN [leaf EXCEPT !.values[insert_pos] = value]
        ELSE [leaf EXCEPT
                !.keys = [i \in DOMAIN leaf.keys |->
                            IF i = insert_pos THEN key
                            ELSE IF i > insert_pos /\ i <= leaf.num_keys THEN leaf.keys[i - 1]
                            ELSE leaf.keys[i]],
                !.values = [i \in DOMAIN leaf.values |->
                            IF i = insert_pos THEN value
                            ELSE IF i > insert_pos /\ i <= leaf.num_keys THEN leaf.values[i - 1]
                            ELSE leaf.values[i]],
                !.num_keys = leaf.num_keys + 1]

\* a search that looks at the first slot only
SearchLeafFirstSlot(leaf, key) ==
    IF leaf.num_keys > 0 /\ leaf.keys[0] = key
    THEN [found |-> TRUE, value |-> leaf.values[0]]
    ELSE [found |-> FALSE, value |-> 0]

\* what the search branch of the leaf handler reports
SearchLeaf(leaf, key) ==
    LET hits == {i \in DOMAIN leaf.keys :
                    /\ i < leaf.num_keys
                    /\ leaf.keys[i] = key
                    /\ \A j \in DOMAIN leaf.keys : j < i => leaf.keys[j] < key}
    IN  IF hits = {} THEN [found |-> FALSE, value |-> 0]
        ELSE [found |-> TRUE, value |-> leaf.values[CHOOSE i \in hits : TRUE]]

SplitPointFor(fanout) == fanout \div 2

split_point == SplitPointFor(btree_fanout)

\* all_keys / all_values of a leaf split: the old pairs with the new one merged in
MergedArray(old, cnt, insert_pos, item, len) ==
    [i \in 0..(len - 1) |->
        IF i < insert_pos /\ i \in DOMAIN old THEN old[i]
        ELSE IF i = insert_pos THEN item
        ELSE IF i > insert_pos /\ i <= cnt /\ (i - 1) \in DOMAIN old THEN old[i - 1]
        ELSE 0]

\* copy src[from .. from+cnt-1] over dst[0 .. cnt-1]; a store past the end of
\* dst does not land in dst
CopyPrefix(dst, src, from, cnt) ==
    [i \in DOMAIN dst |->
        IF i < cnt /\ (from + i) \in DOMAIN src THEN src[from + i] ELSE dst[i]]

\* Stores past the end of an array of len slots (operator[] of std::vector
\* does not check): the stores of src[from + len ..] that the loop makes
\* after it has filled dst.  They land either in memory that belongs to no
\* array of the node ("elsewhere") or in the array laid out next ("adjacent").
Overruns == {"elsewhere", "adjacent"}

StrayStores(overrun, next, src, from, cnt, len) ==
    [j \in DOMAIN next |->
        IF overrun = "adjacent" /\ len + j < cnt /\ (from + len + j) \in DOMAIN src
        THEN src[from + len + j] ELSE next[j]]

\* the two halves of split_leaf_async for a tree of the given fanout, before
\* the addresses are decided
SplitLeafOldFor(fanout, old_leaf, new_key, new_value) ==
    LET insert_pos == InsertPos(old_leaf, new_key)
        all_keys == MergedArray(old_leaf.keys, old_leaf.num_keys, insert_pos, new_key,
                                fanout + 1)
        all_values == MergedArray(old_leaf.values, old_leaf.num_keys, insert_pos, new_value,
                                  fanout + 1)
        s == SplitPointFor(fanout)
    IN  [old_leaf EXCEPT !.num_keys = s,
                         !.keys = CopyPrefix(old_leaf.keys, all_keys, 0, s),
                         !.values = CopyPrefix(old_leaf.values, all_values, 0, s)]

SplitLeafNewFor(fanout, overrun, old_leaf, new_key, new_value, new_leaf_address) ==
    LET insert_pos == InsertPos(old_leaf, new_key)
        all_keys == MergedArray(old_leaf.keys, old_leaf.num_keys, insert_pos, new_key,
                                fanout + 1)
        all_values == MergedArray(old_leaf.values, old_leaf.num_keys, insert_pos, new_value,
                                  fanout + 1)
        s == SplitPointFor(fanout)
        cnt == (fanout + 1) - s
        empty == BTreeNodeFor(fanout)
        values_in == CopyPrefix(empty.values, all_values, s, cnt)
    IN  [empty EXCEPT !.node_address = new_leaf_address,
                      !.is_leaf = TRUE,
                      !.num_keys = cnt,
                      !.keys = CopyPrefix(empty.keys, all_keys, s, cnt),
                      !.values = StrayStores(overrun, values_in, all_keys, s, cnt, fanout),
                      !.children = StrayStores(overrun, empty.children, all_values, s, cnt,
                                               fanout)]

SplitLeafOld(old_leaf, new_key, new_value) ==
    SplitLeafOldFor(btree_fanout, old_leaf, new_key, new_value)

\* no store of the new leaf is out of range for a fanout of 2 or more
SplitLeafNew(old_leaf, new_key, new_value, new_leaf_address) ==
    SplitLeafNewFor(btree_fanout, "elsewhere", old_leaf, new_key, new_value, new_leaf_address)

\* an insertion that puts the new child left of the separator
ParentInsertChildLeft(parent, separator_key, new_child) ==
    LET insert_pos == InsertPos(parent, separator_key)
    IN  [parent EXCEPT
            !.keys = [i \in DOMAIN parent.keys |->
                        IF i = insert_pos THEN separator_key
                        ELSE IF i > insert_pos /\ i <= parent.num_keys THEN parent.keys[i - 1]
                        ELSE parent.keys[i]],
            !.children = [j \in DOMAIN parent.children |->
                        IF j = insert_pos THEN new_child
                        ELSE IF j > insert_pos /\ j <= parent.num_keys + 1
                             THEN parent.children[j - 1]
                        ELSE parent.children[j]],
            !.num_keys = parent.num_keys + 1]

\* parent with (separator_key, new child) inserted in place (READ_PARENT, parent has space)
ParentInsert(parent, separator_key, new_child) ==
    LET insert_pos == InsertPos(parent, separator_key)
    IN  [parent EXCEPT
            !.keys = [i \in DOMAIN parent.keys |->
                        IF i = insert_pos THEN separator_key
                        ELSE IF i > insert_pos /\ i <= parent.num_keys THEN parent.keys[i - 1]
                        ELSE parent.keys[i]],
            !.children = [j \in DOMAIN parent.children |->
                        IF j = insert_pos + 1 THEN new_child
                        ELSE IF j > insert_pos + 1 /\ j <= parent.num_keys + 1
                             THEN parent.children[j - 1]
                        ELSE parent.children[j]],
            !.num_keys = parent.num_keys + 1]

ParentHasSpace(parent) == parent.num_keys < btree_fanout

\* all_children of split_internal_async: fanout + 2 slots
MergedChildren(old, cnt, insert_pos, new_child, len) ==
    [j \in 0..(len - 1) |->
        IF j <= insert_pos /\ j \in DOMAIN old THEN old[j]
        ELSE IF j = insert_pos + 1 THEN new_child
        ELSE IF j > insert_pos + 1 /\ j <= cnt + 1 /\ (j - 1) \in DOMAIN old THEN old[j - 1]
        ELSE 0]

InternalAllKeysFor(fanout, old_internal, new_key) ==
    MergedArray(old_internal.keys, old_internal.num_keys, InsertPos(old_internal, new_key),
                new_key, fanout + 1)

InternalAllChildrenFor(fanout, old_internal, new_key, new_child) ==
    MergedChildren(old_internal.children, old_internal.num_keys,
                   InsertPos(old_internal, new_key), new_child, fanout + 2)

PromotedKeyFor(fanout, old_internal, new_key) ==
    InternalAllKeysFor(fanout, old_internal, new_key)[SplitPointFor(fanout)]

SplitInternalOldFor(fanout, old_internal, new_key, new_child) ==
    LET s == SplitPointFor(fanout)
    IN  [old_internal EXCEPT
            !.num_keys = s,
            !.keys = CopyPrefix(old_internal.keys,
                                InternalAllKeysFor(fanout, old_internal, new_key), 0, s),
            !.children = CopyPrefix(old_internal.children,
                                    InternalAllChildrenFor(fanout, old_internal, new_key,
                                                           new_child),
                                    0, s + 1)]

\* a split that copies the middle key into the new node as a leaf split does
SplitInternalNewCopiesMiddle(fanout, old_internal, new_key, new_child, new_internal_address) ==
    LET s == SplitPointFor(fanout)
        cnt == fanout - s
        empty == BTreeNodeFor(fanout)
    IN  [empty EXCEPT
            !.node_address = new_internal_address,
            !.is_leaf = FALSE,
            !.num_keys = cnt,
            !.keys = CopyPrefix(empty.keys,
                                InternalAllKeysFor(fanout, old_internal, new_key), s, cnt),
            !.children = CopyPrefix(empty.children,
                                    InternalAllChildrenFor(fanout, old_internal, new_key,
                                                           new_child),
                                    s + 1, cnt + 1)]

SplitInternalNewFor(fanout, old_internal, new_key, new_child, new_internal_address) ==
    LET s == SplitPointFor(fanout)
        cnt == fanout - s
        empty == BTreeNodeFor(fanout)
    IN  [empty EXCEPT
            !.node_address = new_internal_address,
            !.is_leaf = FALSE,
            !.num_keys = cnt,
            !.keys = CopyPrefix(empty.keys,
                                InternalAllKeysFor(fanout, old_internal, new_key), s + 1, cnt),
            !.children = CopyPrefix(empty.children,
                                    InternalAllChildrenFor(fanout, old_internal, new_key,
                                                           new_child),
                                    s + 1, cnt + 1)]

InternalAllKeys(old_internal, new_key) ==
    InternalAllKeysFor(btree_fanout, old_internal, new_key)

InternalAllChildren(old_internal, new_key, new_child) ==
    InternalAllChildrenFor(btree_fanout, old_internal, new_key, new_child)

PromotedKey(old_internal, new_key) == PromotedKeyFor(btree_fanout, old_internal, new_key)

SplitInternalOld(old_internal, new_key, new_child) ==
    SplitInternalOldFor(btree_fanout, old_internal, new_key, new_child)

SplitInternalNew(old_internal, new_key, new_child, new_internal_address) ==
    SplitInternalNewFor(btree_fanout, old_internal, new_key, new_child, new_internal_address)

\* the new root of a root split
NewRoot(new_root_addr, separator_key, old_addr, new_addr) ==
    [BTreeNode EXCEPT
        !.node_address = new_root_addr,
        !.is_leaf = FALSE,
        !.num_keys = 1,
        !.keys = [i \in DOMAIN BTreeNode.keys |-> IF i = 0 THEN separator_key ELSE 0],
        !.children = [j \in DOMAIN BTreeNode.children |->
                        IF j = 0 THEN old_addr ELSE IF j = 1 THEN new_addr ELSE 0]]

\* after WRITE_NEW_NODE a new root is made only for a root split
NeedsNewRoot(op) == op.is_root_split

\* a root split that counts the height down
HeightAfterRootSplitDown(height) == height - 1

\* tree_height++ of a root split
HeightAfterRootSplit(height) == height + 1

(***************************************************************************)
(* AsyncOperation.  start_time is left out (time is not modelled).         *)
(* counted is history: the operation was already added to                  *)
(* stat_ops_completed once.  exp_* are history of a search: what a search  *)
(* launched at that moment has to observe.  In ins_hist an insert is       *)
(* completed when it has taken its last step: the in-place write of the    *)
(* leaf, or the last step of its split.                                    *)
(***************************************************************************)
AsyncOperation ==
    [ type |-> "TRAVERSAL", key |-> 0, value |-> 0, current_level |-> 0,
      current_address |-> 0, path |-> << >>, split_phase |-> "NONE",
      old_node |-> BTreeNode, new_node |-> BTreeNode, separator_key |-> 0,
      parent_address |-> 0, is_root_split |-> FALSE,
      counted |-> FALSE, exp_valid |-> FALSE, exp_value |-> 0, exp_stamp |-> 0,
      op_no |-> 0 ]

MapPut(m, k, v) == [x \in DOMAIN m \cup {k} |-> IF x = k THEN v ELSE m[x]]
\* an erase that leaves the record in the map
MapDelKeeps(m, k) == m

MapDel(m, k) == [x \in DOMAIN m \ {k} |-> m[x]]

NoReq == [kind |-> "none"]
ReadReq(address, tag) == [kind |-> "Read", address |-> address, tag |-> tag]
\* a write that sends every node to the root's address
WriteReqAtRoot(node, tag) ==
    [kind |-> "Write", address |-> root_address, data |-> serialize_node(node), tag |-> tag]

WriteReq(node, tag) ==
    [kind |-> "Write", address |-> node.node_address, data |-> serialize_node(node), tag |-> tag]

\* history: an insert took its last step
CountInsert(op, hist) ==
    IF op.type = "SEARCH" \/ op.key \notin DOMAIN hist THEN hist
    ELSE [hist EXCEPT ![op.key] =
            [@ EXCEPT !.inflight = @ - 1, !.last_valid = TRUE, !.last_value = op.value]]

\* what a handler leaves behind; NoEffect is a handler that returns at once
NoEffect ==
    [ pending |-> pending_ops, req |-> NoReq, root |-> root_address,
      height |-> tree_height, nnid |-> next_node_id, done |-> 0,
      hist |-> ins_hist, sres |-> search_result ]

(***************************************************************************)
(* Handlers.  Each yields the effect of one call: the new pending_ops, the *)
(* single request it sends and the new tree metadata.  The request a       *)
(* handler sends gets the id next_req_id.                                  *)
(***************************************************************************)
split_leaf_async(req_id, op, old_leaf, new_key, new_value) ==
    LET leaf_level == IF op.is_root_split THEN tree_height ELSE tree_height - 1
        new_leaf_address == allocate_node_address(next_node_id, leaf_level)
        new_leaf == SplitLeafNew(old_leaf, new_key, new_value, new_leaf_address)
        is_root == (old_leaf.node_address = root_address)
        halved == SplitLeafOld(old_leaf, new_key, new_value)
        old2 == IF is_root
                THEN [halved EXCEPT !.node_address =
                                        allocate_node_address(next_node_id + 1, leaf_level)]
                ELSE halved
        op2 == [op EXCEPT
                  !.type = "SPLIT_LEAF",
                  !.split_phase = "WRITE_OLD_NODE",
                  !.separator_key = new_leaf.keys[0],
                  !.is_root_split = is_root,
                  !.parent_address =
                      IF is_root THEN op.parent_address
                      ELSE IF Len(op.path) >= 2 THEN op.path[Len(op.path) - 1].node_address
                      ELSE 0,
                  !.old_node = old2,
                  !.new_node = new_leaf]
    IN  [NoEffect EXCEPT
            !.pending = MapPut(pending_ops, next_req_id, op2),
            !.req = WriteReq(old2, "old"),
            !.nnid = next_node_id + (IF is_root THEN 2 ELSE 1)]

split_internal_async(req_id, op, old_internal, new_key, new_child) ==
    LET new_internal_address == allocate_node_address(next_node_id, op.current_level)
        new_internal == SplitInternalNew(old_internal, new_key, new_child, new_internal_address)
        is_root == (old_internal.node_address = root_address)
        halved == SplitInternalOld(old_internal, new_key, new_child)
        old2 == IF is_root
                THEN [halved EXCEPT !.node_address =
                                        allocate_node_address(next_node_id + 1, op.current_level)]
                ELSE halved
        op2 == [op EXCEPT
                  !.type = "SPLIT_INTERNAL",
                  !.split_phase = "WRITE_OLD_NODE",
                  !.separator_key = PromotedKey(old_internal, new_key),
                  !.is_root_split = is_root,
                  !.parent_address =
                      IF is_root THEN op.parent_address
                      ELSE IF Len(op.path) >= 2 THEN op.path[Len(op.path) - 1].node_address
                      ELSE 0,
                  !.old_node = old2,
                  !.new_node = new_internal]
    IN  [NoEffect EXCEPT
            !.pending = MapPut(pending_ops, next_req_id, op2),
            !.req = WriteReq(old2, "old"),
            !.nnid = next_node_id + (IF is_root THEN 2 ELSE 1)]

\* handle_leaf_operation followed by the completion block of handle_read_response:
\* the record under req_id is still there in every branch, so the operation is
\* counted and erased
handle_leaf_operation(req_id, op, leaf) ==
    LET body ==
          IF op.type = "INSERT"
          THEN IF LeafHasSpace(leaf)
               THEN [NoEffect EXCEPT !.req = WriteReq(LeafInsert(leaf, op.key, op.value), "leaf")]
               ELSE LET e == split_leaf_async(req_id, op, leaf, op.key, op.value)
                    IN  [e EXCEPT !.pending =
                            [x \in DOMAIN e.pending |->
                                IF x = next_req_id THEN [e.pending[x] EXCEPT !.counted = TRUE]
                                ELSE e.pending[x]]]
          ELSE IF op.type = "SEARCH"
          THEN LET res == SearchLeaf(leaf, op.key)
               IN  [NoEffect EXCEPT !.sres =
                        [ reported |-> TRUE, key |-> op.key, found |-> res.found,
                          value |-> res.value,
                          exp_valid |-> op.exp_valid
                                        /\ op.key \in DOMAIN ins_hist
                                        /\ ins_hist[op.key].launched = op.exp_stamp,
                          exp_value |-> op.exp_value ]]
          ELSE NoEffect
    IN  [body EXCEPT !.pending = MapDel(body.pending, req_id),
                     !.done = 1,
                     !.hist = IF op.type = "INSERT" /\ ~LeafHasSpace(leaf) THEN ins_hist
                              ELSE CountInsert(op, ins_hist)]

\* READ_PARENT branch of handle_read_response
read_parent_response(req_id, op, parent) ==
    LET child_idx == InsertPos(parent, op.separator_key)
        child_addr == parent.children[child_idx]
        searching == (op.parent_address = 0 /\ ~parent.is_leaf)
        found_it == child_addr = op.old_node.node_address
                    \/ child_addr = op.new_node.node_address
        op1 == IF searching /\ found_it
               THEN [op EXCEPT !.parent_address = parent.node_address]
               ELSE op
    IN  IF searching /\ ~found_it
        THEN [NoEffect EXCEPT
                !.pending = MapDel(MapPut(pending_ops, next_req_id,
                                [op EXCEPT !.current_level = @ + 1,
                                           !.current_address = child_addr]), req_id),
                !.req = ReadReq(child_addr, "find_parent")]
        ELSE IF ParentHasSpace(parent)
        THEN LET parent2 == ParentInsert(parent, op1.separator_key, op1.new_node.node_address)
             IN  [NoEffect EXCEPT
                    !.pending = MapDel(MapPut(pending_ops, next_req_id,
                                    [op1 EXCEPT !.split_phase = "UPDATE_PARENT_NODE"]), req_id),
                    !.req = WriteReq(parent2, "parent")]
        ELSE LET e == split_internal_async(req_id, op1, parent, op1.separator_key,
                                           op1.new_node.node_address)
             IN  [e EXCEPT !.pending = MapDel(e.pending, req_id)]

handle_read_response(req_id, data) ==
    IF req_id \notin DOMAIN pending_ops THEN NoEffect
    ELSE
    LET op == pending_ops[req_id]
    IN  IF op.split_phase = "READ_PARENT"
        THEN read_parent_response(req_id, op, deserialize_node(data))
        ELSE
        LET node == deserialize_node(data)
            op1 == [op EXCEPT !.path = Append(@, node)]
        IN  IF ReachedLeaf(node, op1.current_level)
            THEN handle_leaf_operation(req_id, op1, node)
            ELSE LET child_addr == node.children[get_child_index_for_key(node, op1.key)]
                 IN  [NoEffect EXCEPT
                        !.pending = MapDel(MapPut(pending_ops, next_req_id,
                                        [op1 EXCEPT !.current_level = @ + 1,
                                                    !.current_address = child_addr]), req_id),
                        !.req = ReadReq(child_addr, "traverse")]

\* a split that goes for the parent before its new node is written
PhaseAfterWriteOldSkipsNew(op) == "READ_PARENT"

\* the phase that follows WRITE_OLD_NODE
PhaseAfterWriteOld(op) == "WRITE_NEW_NODE"

handle_split_response(op) ==
    IF op.split_phase = "WRITE_OLD_NODE"
    THEN [NoEffect EXCEPT
            !.pending = MapPut(pending_ops, next_req_id,
                               [op EXCEPT !.split_phase = PhaseAfterWriteOld(op)]),
            !.req = WriteReq(op.new_node, "new")]
    ELSE IF op.split_phase = "WRITE_NEW_NODE"
    THEN IF NeedsNewRoot(op)
         THEN LET new_root_addr == allocate_node_address(next_node_id, 0)
              IN  [NoEffect EXCEPT
                     !.req = WriteReq(NewRoot(new_root_addr, op.separator_key,
                                              op.old_node.node_address,
                                              op.new_node.node_address), "new_root"),
                     !.nnid = next_node_id + 1,
                     !.root = new_root_addr,
                     !.height = HeightAfterRootSplit(tree_height),
                     !.done = 1,
                     !.hist = CountInsert(op, ins_hist)]
         ELSE IF op.parent_address = 0
         THEN [NoEffect EXCEPT
                 !.pending = MapPut(pending_ops, next_req_id,
                                    [op EXCEPT !.split_phase = "READ_PARENT",
                                               !.current_address = root_address,
                                               !.current_level = 0]),
                 !.req = ReadReq(root_address, "find_parent")]
         ELSE [NoEffect EXCEPT
                 !.pending = MapPut(pending_ops, next_req_id,
                                    [op EXCEPT !.split_phase = "READ_PARENT"]),
                 !.req = ReadReq(op.parent_address, "read_parent")]
    ELSE IF op.split_phase = "UPDATE_PARENT_NODE"
    THEN [NoEffect EXCEPT !.done = 1, !.hist = CountInsert(op, ins_hist)]
    ELSE NoEffect

\* a handler that asks for the root again when the write it hears of is unknown
handle_write_response_Rereads(req_id) ==
    IF req_id \in DOMAIN pending_ops
       /\ pending_ops[req_id].type \in {"SPLIT_LEAF", "SPLIT_INTERNAL"}
    THEN LET e == handle_split_response(pending_ops[req_id])
         IN  [e EXCEPT !.pending = MapDel(e.pending, req_id)]
    ELSE [NoEffect EXCEPT !.req = ReadReq(root_address, "traverse")]

handle_write_response(req_id) ==
    IF req_id \in DOMAIN pending_ops
       /\ pending_ops[req_id].type \in {"SPLIT_LEAF", "SPLIT_INTERNAL"}
    THEN LET e == handle_split_response(pending_ops[req_id])
         IN  [e EXCEPT !.pending = MapDel(e.pending, req_id)]
    ELSE NoEffect

(***************************************************************************)
(* One step of the system: the answers in `consumed` are delivered, the    *)
(* handler's effect is applied, and the request it sent reaches its memory *)
(* node, which stores or reads and answers.                                *)
(***************************************************************************)
Answer(req) ==
    IF req.kind = "Read" /\ ReadAnswered(req.address)
    THEN {[ id |-> next_req_id, kind |-> "ReadResp",
            data |-> read_memory(memory_blocks, req.address), tag |-> req.tag ]}
    ELSE IF req.kind = "Write" /\ WriteAnswered(req.address)
    THEN {[ id |-> next_req_id, kind |-> "WriteResp", data |-> << >>, tag |-> req.tag ]}
    ELSE {}

Commit(consumed, eff) ==
    /\ eff.req.kind # "none" => next_req_id <= MaxRequests
    /\ pending_ops' = eff.pending
    /\ root_address' = eff.root
    /\ tree_height' = eff.height
    /\ next_node_id' = eff.nnid
    /\ stat_ops_completed' = stat_ops_completed + eff.done
    /\ ins_hist' = eff.hist
    /\ search_result' = eff.sres
    /\ next_req_id' = IF eff.req.kind = "none" THEN next_req_id ELSE next_req_id + 1
    /\ memory_blocks' = IF eff.req.kind = "Write"
                        THEN write_memory(memory_blocks, eff.req.address, eff.req.data)
                        ELSE memory_blocks
    /\ last_req' = IF eff.req.kind = "none" THEN last_req
                   ELSE [ id |-> next_req_id, kind |-> eff.req.kind,
                          address |-> eff.req.address, tag |-> eff.req.tag,
                          data |-> IF eff.req.kind = "Write" THEN eff.req.data ELSE << >> ]
    /\ responses' = (responses \ consumed) \cup Answer(eff.req)
    /\ UNCHANGED << num_memory_nodes, key_range, current_time, simulation_duration,
                    clock_period, clock_on, pending_operations, probe >>
    /\ node_locks' = IF eff.req.kind = "Write"
                     THEN lock_write(node_locks, get_interface_for_address(eff.req.address),
                                     eff.req.address, eff.req.data)
                     ELSE node_locks

Keys == 0..(key_range - 1)

\* The engine only copies values, so every insert carries a value of its own:
\* the number of the operation in launch order.
NextValue == launched + 1

CanLaunch == launched < MaxOps /\ Cardinality(responses) < MaxInFlight

btree_insert_async(key, value) ==
    /\ launched' = launched + 1
    /\ Commit({}, [NoEffect EXCEPT
            !.pending = MapPut(pending_ops, next_req_id,
                               [AsyncOperation EXCEPT !.type = "INSERT",
                                                      !.op_no = launched + 1,
                                                      !.key = key,
                                                      !.value = value,
                                                      !.current_level = 0,
                                                      !.current_address = root_address]),
            !.req = ReadReq(root_address, "traverse"),
            !.hist = [ins_hist EXCEPT ![key] =
                        [@ EXCEPT !.launched = @ + 1, !.inflight = @ + 1]]])

btree_search_async(key) ==
    /\ launched' = launched + 1
    /\ Commit({}, [NoEffect EXCEPT
            !.pending = MapPut(pending_ops, next_req_id,
                               [AsyncOperation EXCEPT
                                    !.type = "SEARCH",
                                    !.op_no = launched + 1,
                                    !.key = key,
                                    !.current_level = 0,
                                    !.current_address = root_address,
                                    !.exp_valid = ins_hist[key].last_valid
                                                  /\ ins_hist[key].inflight = 0,
                                    !.exp_value = ins_hist[key].last_value,
                                    !.exp_stamp = ins_hist[key].launched]),
            !.req = ReadReq(root_address, "traverse")])

\* handleMemoryEvent for a ReadResp / a WriteResp
ReadResponse(r) ==
    /\ r.kind = "ReadResp"
    /\ Commit({r}, handle_read_response(r.id, r.data))
    /\ UNCHANGED launched

WriteResponse(r) ==
    /\ r.kind = "WriteResp"
    /\ Commit({r}, handle_write_response(r.id))
    /\ UNCHANGED launched

\* the constructor, then setup(): initialize_btree writes the empty root leaf
Constructed ==
    /\ tree_height = calculate_tree_height(key_range)
    /\ next_node_id = 1
    /\ root_address = allocate_node_address(0, 0)
    /\ pending_ops = [x \in {} |-> AsyncOperation]
    /\ next_req_id = 2
    /\ LET root == [BTreeNode EXCEPT !.node_address = allocate_node_address(0, 0)]
       IN  /\ memory_blocks = write_memory([a \in {} |-> << >>], root.node_address,
                                           serialize_node(root))
           /\ last_req = [ id |-> 1, kind |-> "Write", address |-> root.node_address,
                            tag |-> "init_root", data |-> serialize_node(root) ]
    /\ responses = {[ id |-> 1, kind |-> "WriteResp", data |-> << >>, tag |-> "init_root" ]}
    /\ stat_ops_completed = 0
    /\ launched = 0
    /\ ins_hist = [k \in Keys |->
                    [launched |-> 0, inflight |-> 0, last_valid |-> FALSE, last_value |-> 0]]
    /\ search_result = [ reported |-> FALSE, key |-> 0, found |-> FALSE, value |-> 0,
                         exp_valid |-> FALSE, exp_value |-> 0 ]
    /\ probe = [fn |-> "none"]
    /\ node_locks = [a \in {} |-> NodeLock]

\* the workload is launched by the environment, not by the clock
NoClock ==
    /\ current_time = 0
    /\ simulation_duration = 0
    /\ clock_period = 1
    /\ clock_on = FALSE
    /\ pending_operations = << >>

Init ==
    /\ num_memory_nodes \in 1..MaxMemoryNodes
    /\ key_range \in {btree_fanout, MaxKeyRange}
    /\ Constructed
    /\ NoClock

Next ==
    \/ \E key \in Keys : CanLaunch /\ btree_insert_async(key, NextValue)
    \/ \E key \in Keys : CanLaunch /\ btree_search_async(key)
    \/ \E r \in responses : ReadResponse(r)
    \/ \E r \in responses : WriteResponse(r)

Spec == Init /\ [][Next]_vars

(***************************************************************************)
(* The workload of the test scenarios: inserts of distinct keys, each      *)
(* launched when the one before it has finished and every answer has been  *)
(* delivered.                                                              *)
(***************************************************************************)
Quiescent == DOMAIN pending_ops = {} /\ responses = {}

CanLaunchNext(key) ==
    Quiescent /\ launched < MaxSeqOps /\ ins_hist[key].launched = 0

SeqInit ==
    /\ num_memory_nodes \in 1..MaxMemoryNodes
    /\ key_range = MaxSeqOps
    /\ Constructed
    /\ NoClock

SeqNext ==
    \/ \E key \in Keys : CanLaunchNext(key) /\ btree_insert_async(key, NextValue)
    \/ \E r \in responses : ReadResponse(r)
    \/ \E r \in responses : WriteResponse(r)

SeqSpec == SeqInit /\ [][SeqNext]_vars

(***************************************************************************)
(* The same engine behind a transport that may cut a read answer short:    *)
(* the payload handed to handleMemoryEvent then holds fewer words than a   *)
(* node header.  One answer at a time is cut, and an operation is launched *)
(* when the one before it has finished.                                    *)
(***************************************************************************)
CutShort(r, len) ==
    /\ r.kind = "ReadResp"
    /\ \A x \in responses : x.kind = "ReadResp" => Len(x.data) >= HeaderWords
    /\ responses' = (responses \ {r}) \cup {[r EXCEPT !.data = SubSeq(r.data, 1, len)]}
    /\ UNCHANGED << num_memory_nodes, key_range, root_address, tree_height, next_node_id,
                    pending_ops, next_req_id, memory_blocks, stat_ops_completed, launched,
                    ins_hist, search_result, last_req, current_time, simulation_duration,
                    clock_period, clock_on, pending_operations, probe, node_locks >>

ShortNext ==
    \/ \E key \in Keys : CanLaunch /\ Quiescent /\ btree_insert_async(key, NextValue)
    \/ \E key \in Keys : CanLaunch /\ Quiescent /\ btree_search_async(key)
    \/ \E r \in responses : ReadResponse(r)
    \/ \E r \in responses : WriteResponse(r)
    \/ \E r \in responses, len \in 0..(HeaderWords - 1) : CutShort(r, len)

ShortInit ==
    /\ num_memory_nodes \in 1..MaxMemoryNodes
    /\ key_range \in {btree_fanout, MaxKeyRange}
    /\ Constructed
    /\ NoClock

ShortSpec == ShortInit /\ [][ShortNext]_vars

(***************************************************************************)
(* The clocked workload.  generate_workload fills the queue with one       *)
(* operation every op_interval from time 0 up to simulation_duration, of   *)
(* any type and key; tick is called every clock_period and launches the    *)
(* operations that are due.  An insert carries its launch number as value, *)
(* as in the other workloads.                                              *)
(***************************************************************************)
\* the queues generate_workload can build for an interval and a duration
Workloads(op_interval, duration) ==
    LET n == (duration + op_interval - 1) \div op_interval
    IN  {q \in [1..n -> [timestamp : 0..duration, op_type : {"INSERT", "SEARCH"}, key : Keys]] :
            \A i \in 1..n : q[i].timestamp = (i - 1) * op_interval}

\* a tick that launches whatever is at the front of the queue
DueAlways(op, now) == TRUE

\* tick's test of the front of the queue
Due(op, now) == ~(op.timestamp > now)

\* the engine state a launch works on
EngineState ==
    [ pending |-> pending_ops, nrid |-> next_req_id, resp |-> responses,
      launched |-> launched, hist |-> ins_hist, last |-> last_req ]

\* process_btree_operation: the launch of one operation of the queue
process_btree_operation(st, op) ==
    LET no == st.launched + 1
        rec == IF op.op_type = "INSERT"
               THEN [AsyncOperation EXCEPT !.type = "INSERT",
                                           !.op_no = no,
                                           !.key = op.key,
                                           !.value = no,
                                           !.current_level = 0,
                                           !.current_address = root_address]
               ELSE [AsyncOperation EXCEPT
                        !.type = "SEARCH",
                        !.op_no = no,
                        !.key = op.key,
                        !.current_level = 0,
                        !.current_address = root_address,
                        !.exp_valid = st.hist[op.key].last_valid
                                      /\ st.hist[op.key].inflight = 0,
                        !.exp_value = st.hist[op.key].last_value,
                        !.exp_stamp = st.hist[op.key].launched]
        req == ReadReq(root_address, "traverse")
    IN  [ pending |-> MapPut(st.pending, st.nrid, rec),
          nrid |-> st.nrid + 1,
          resp |-> st.resp \cup {[r EXCEPT !.id = st.nrid] : r \in Answer(req)},
          launched |-> no,
          hist |-> IF op.op_type = "INSERT"
                   THEN [st.hist EXCEPT ![op.key] =
                            [@ EXCEPT !.launched = @ + 1, !.inflight = @ + 1]]
                   ELSE st.hist,
          last |-> [ id |-> st.nrid, kind |-> "Read", address |-> root_address,
                     tag |-> "traverse", data |-> << >> ] ]

\* tick's loop: launch from the front of the queue while the front is due
RECURSIVE LaunchDue(_, _, _)
LaunchDue(st, queue, now) ==
    IF queue = << >> \/ ~Due(Head(queue), now) THEN [st |-> st, queue |-> queue]
    ELSE LaunchDue(process_btree_operation(st, Head(queue)), Tail(queue), now)

\* one call of the clock handler, at the time of the next cycle
tick ==
    /\ clock_on
    /\ current_time' = current_time + clock_period
    /\ IF current_time' > simulation_duration
       THEN /\ clock_on' = FALSE
            /\ UNCHANGED << pending_ops, next_req_id, responses, launched, ins_hist,
                            last_req, pending_operations >>
       ELSE LET out == LaunchDue(EngineState, pending_operations, current_time')
            IN  /\ pending_ops' = out.st.pending
                /\ next_req_id' = out.st.nrid
                /\ responses' = out.st.resp
                /\ launched' = out.st.launched
                /\ ins_hist' = out.st.hist
                /\ last_req' = out.st.last
                /\ pending_operations' = out.queue
                /\ UNCHANGED clock_on
    /\ UNCHANGED << num_memory_nodes, key_range, root_address, tree_height, next_node_id,
                    memory_blocks, stat_ops_completed, search_result,
                    simulation_duration, clock_period, probe, node_locks >>

TickInit ==
    /\ num_memory_nodes \in 1..MaxMemoryNodes
    /\ key_range = btree_fanout
    /\ Constructed
    /\ current_time = 0
    /\ clock_on = TRUE
    /\ clock_period \in 1..MaxClockPeriod
    /\ simulation_duration \in 1..MaxDuration
    /\ \E op_interval \in 1..MaxOpInterval :
          /\ (simulation_duration + op_interval - 1) \div op_interval <= MaxTickOps
          /\ pending_operations \in Workloads(op_interval, simulation_duration)

TickNext ==
    \/ tick
    \/ \E r \in responses : ReadResponse(r)
    \/ \E r \in responses : WriteResponse(r)

TickSpec == TickInit /\ [][TickNext]_vars

(***************************************************************************)
(* The address functions called on their own, for the configured number of *)
(* memory nodes and a tree height the configuration gives, with addresses  *)
(* around every slab boundary and node ids around every wrap of the slot   *)
(* counters.                                                               *)
(***************************************************************************)
engine_vars ==
    << num_memory_nodes, key_range, root_address, tree_height, next_node_id,
       pending_ops, next_req_id, memory_blocks, responses,
       stat_ops_completed, launched, ins_hist, search_result, last_req,
       current_time, simulation_duration, clock_period, clock_on,
       pending_operations, node_locks >>

ProbeAddresses ==
    {0, MEMORY_BASE_ADDRESS - 1}
    \cup {MEMORY_BASE_ADDRESS + k * MEMORY_SERVER_SIZE + off :
             k \in 0..(MaxMemoryNodes + 1), off \in {0, MEMORY_SERVER_SIZE - 1}}

\* the first slot of the level-1 band whose node, for the default fanout,
\* starts at or after offset LOCK_REGION_START
FirstSlotAtLockRegion ==
    (LOCK_REGION_START - BTREE_LEVEL1_OFFSET + SerializedNodeSize(DEFAULT_FANOUT) - 1)
        \div SerializedNodeSize(DEFAULT_FANOUT)

ProbeNodeIds ==
    0..(MaxMemoryNodes + 1)
    \cup {INTERNAL_SLOTS - 1, INTERNAL_SLOTS, LEAF_SLOTS - 1, LEAF_SLOTS}
    \cup {FirstSlotAtLockRegion - 1, FirstSlotAtLockRegion}

ProbeFanouts == {btree_fanout, DEFAULT_FANOUT}

ProbeRoute(address) ==
    /\ probe' = [ fn |-> "get_interface_for_address", address |-> address,
                  channel |-> get_interface_for_address(address) ]
    /\ UNCHANGED engine_vars

ProbeAllocate(fanout, node_id, level) ==
    /\ probe' = [ fn |-> "allocate_node_address", fanout |-> fanout,
                  node_id |-> node_id, level |-> level,
                  address |-> AllocateFor(SerializedNodeSize(fanout), tree_height,
                                          node_id, level) ]
    /\ UNCHANGED engine_vars

AddrInit ==
    /\ num_memory_nodes \in 1..MaxMemoryNodes
    /\ key_range \in {btree_fanout, MaxKeyRange, MaxSeqOps}
    /\ Constructed
    /\ NoClock

AddrNext ==
    \/ \E address \in ProbeAddresses : ProbeRoute(address)
    \/ \E fanout \in ProbeFanouts, node_id \in ProbeNodeIds, level \in 0..MaxProbeLevel :
          ProbeAllocate(fanout, node_id, level)

AddrSpec == AddrInit /\ [][AddrNext]_vars

(***************************************************************************)
(* The memory nodes on their own: any compute node sends any read or write *)
(* to any memory node, through the interface that attaches it.  Locking is *)
(* enabled, as it is unless the configuration turns it off.                *)
(***************************************************************************)
\* handleMemoryEvent cannot tell the interface a request came from
ArrivalInterface(interface) == 0

\* the interface a read answer leaves through
response_interface(interface_id) ==
    IF interface_id >= 0 /\ interface_id < MaxComputeNodes THEN interface_id ELSE 0

\* write_memory at memory node memory_server_id, after the tests of
\* handle_rdma_write
write_memory_at(blocks, memory_server_id, address, data) ==
    IF ~is_address_in_range(memory_server_id, address) THEN blocks
    ELSE IF is_lock_address(memory_server_id, address) THEN blocks
    ELSE [a \in DOMAIN blocks \cup {address} |-> IF a = address THEN data ELSE blocks[a]]

MemAddresses(memory_server_id) ==
    {ServerBase(memory_server_id) + off :
        off \in {0, LOCK_REGION_START, LOCK_REGION_END, MEMORY_SERVER_SIZE}}

Payloads == UNION {[1..n -> 0..MaxPayload] : n \in 1..MaxWords}

MemCall == probe.fn \in {"handle_rdma_read", "handle_rdma_write"}

NextSeq == IF MemCall THEN probe.seq + 1 ELSE 1

mem_unchanged ==
    << num_memory_nodes, key_range, root_address, tree_height, next_node_id,
       pending_ops, next_req_id, responses,
       stat_ops_completed, launched, ins_hist, search_result, last_req,
       current_time, simulation_duration, clock_period, clock_on,
       pending_operations >>

handle_rdma_read(memory_server_id, interface, address, size) ==
    /\ NextSeq <= MaxMemRequests
    /\ probe' = [ fn |-> "handle_rdma_read", seq |-> NextSeq,
                  server |-> memory_server_id, interface |-> interface,
                  address |-> address, size |-> size, data |-> << >>,
                  answers |->
                    IF ~is_address_in_range(memory_server_id, address) THEN {}
                    ELSE {[ kind |-> "ReadResp",
                            interface |-> response_interface(ArrivalInterface(interface)),
                            data |-> read_memory_sized(memory_blocks, address, size) ]} ]
    /\ UNCHANGED << memory_blocks, node_locks >>
    /\ UNCHANGED mem_unchanged

handle_rdma_write(memory_server_id, interface, address, data) ==
    /\ NextSeq <= MaxMemRequests
    /\ probe' = [ fn |-> "handle_rdma_write", seq |-> NextSeq,
                  server |-> memory_server_id, interface |-> interface,
                  address |-> address, size |-> Len(data), data |-> data,
                  answers |->
                    IF ~is_address_in_range(memory_server_id, address) THEN {}
                    ELSE {[ kind |-> "WriteResp", interface |-> 0, data |-> << >> ]} ]
    /\ memory_blocks' = write_memory_at(memory_blocks, memory_server_id, address, data)
    /\ node_locks' = lock_write(node_locks, memory_server_id, address, data)
    /\ UNCHANGED mem_unchanged

MemInit ==
    /\ num_memory_nodes \in 1..MaxMemoryNodes
    /\ key_range = btree_fanout
    /\ Constructed
    /\ NoClock

MemNext ==
    \/ \E m \in 0..(num_memory_nodes - 1), i \in 0..(MaxComputeNodes - 1) :
          \E a \in MemAddresses(m), size \in 1..MaxWords :
            handle_rdma_read(m, i, a, size)
    \/ \E m \in 0..(num_memory_nodes - 1), i \in 0..(MaxComputeNodes - 1) :
          \E a \in MemAddresses(m), data \in Payloads :
            handle_rdma_write(m, i, a, data)

MemSpec == MemInit /\ [][MemNext]_vars

(***************************************************************************)
(* The two split procedures called on their own, on every full sorted node *)
(* of a small fanout and every incoming key.  The slots of a probed node   *)
(* carry values and child addresses that differ from each other and from   *)
(* every key, so that a pair or a child that moves is seen to move.        *)
(***************************************************************************)
SplitFanouts == 1..MaxSplitFanout

SplitKeys == 0..MaxSplitKey

\* the value in slot i of a probed leaf, and the child in slot j of a probed
\* internal node
SlotValue(i) == MaxSplitKey + 1 + i

SlotChild(j) == MEMORY_BASE_ADDRESS + j + 1

\* the keys of set S in ascending order, one per slot
Ascending(S) == [i \in 0..(Cardinality(S) - 1) |->
                    CHOOSE k \in S : Cardinality({x \in S : x < k}) = i]

FullLeaves(fanout) ==
    {[BTreeNodeFor(fanout) EXCEPT
         !.num_keys = fanout,
         !.node_address = MEMORY_BASE_ADDRESS,
         !.keys = Ascending(S),
         !.values = [i \in 0..(fanout - 1) |-> SlotValue(i)]] :
     S \in {T \in SUBSET SplitKeys : Cardinality(T) = fanout}}

FullInternals(fanout) ==
    {[BTreeNodeFor(fanout) EXCEPT
         !.num_keys = fanout,
         !.is_leaf = FALSE,
         !.node_address = MEMORY_BASE_ADDRESS,
         !.keys = Ascending(S),
         !.children = [j \in 0..fanout |-> SlotChild(j)]] :
     S \in {T \in SUBSET SplitKeys : Cardinality(T) = fanout}}

\* split_leaf_async up to the choice of the separator
ProbeSplitLeaf(fanout, overrun, old_leaf, new_key, new_value) ==
    LET new_leaf == SplitLeafNewFor(fanout, overrun, old_leaf, new_key, new_value,
                                    MEMORY_BASE_ADDRESS + MEMORY_SERVER_SIZE - 1)
    IN  /\ probe' = [ fn |-> "split_leaf_async", fanout |-> fanout,
                      node |-> old_leaf, new_key |-> new_key, new_value |-> new_value,
                      old_node |-> SplitLeafOldFor(fanout, old_leaf, new_key, new_value),
                      new_node |-> new_leaf,
                      separator_key |-> new_leaf.keys[0] ]
        /\ UNCHANGED engine_vars

\* split_internal_async up to the choice of the separator
ProbeSplitInternal(fanout, old_internal, new_key, new_child) ==
    /\ probe' = [ fn |-> "split_internal_async", fanout |-> fanout,
                  node |-> old_internal, new_key |-> new_key, new_child |-> new_child,
                  old_node |-> SplitInternalOldFor(fanout, old_internal, new_key, new_child),
                  new_node |-> SplitInternalNewFor(fanout, old_internal, new_key, new_child,
                                   MEMORY_BASE_ADDRESS + MEMORY_SERVER_SIZE - 1),
                  separator_key |-> PromotedKeyFor(fanout, old_internal, new_key) ]
    /\ UNCHANGED engine_vars

SplitInit ==
    /\ num_memory_nodes \in 1..MaxMemoryNodes
    /\ key_range = btree_fanout
    /\ Constructed
    /\ NoClock

SplitNext ==
    \/ \E fanout \in SplitFanouts, overrun \in Overruns, new_key \in SplitKeys :
          \E old_leaf \in FullLeaves(fanout) :
             ProbeSplitLeaf(fanout, overrun, old_leaf, new_key, SlotValue(fanout))
    \/ \E fanout \in SplitFanouts, new_key \in SplitKeys :
          \E old_internal \in FullInternals(fanout) :
             ProbeSplitInternal(fanout, old_internal, new_key, SlotChild(fanout + 1))

SplitSpec == SplitInit /\ [][SplitNext]_vars

(***************************************************************************)
(* Reading the stored tree                                                 *)
(***************************************************************************)
NodeAt(address) == deserialize_node(read_memory(memory_blocks, address))

NodeKeys(node) == {node.keys[i] : i \in {j \in DOMAIN node.keys : j < node.num_keys}}

ChildAddrs(node) ==
    {node.children[i] : i \in {j \in DOMAIN node.children : j <= node.num_keys}}

\* no tree grows by more than one level per operation
WalkDepth == MaxOps + 2

\* addresses of the stored nodes reachable from address a within fuel child hops
RECURSIVE ReachFrom(_, _)
ReachFrom(a, fuel) ==
    IF a \notin DOMAIN memory_blocks THEN {}
    ELSE IF NodeAt(a).is_leaf \/ fuel = 0 THEN {a}
    ELSE {a} \cup UNION {ReachFrom(c, fuel - 1) : c \in ChildAddrs(NodeAt(a))}

SubtreeKeys(a) == UNION {NodeKeys(NodeAt(x)) : x \in ReachFrom(a, WalkDepth)}

\* depths at which a traversal by child hops from a meets a leaf
RECURSIVE LeafDepths(_, _, _)
LeafDepths(a, depth, fuel) ==
    IF a \notin DOMAIN memory_blocks THEN {}
    ELSE IF NodeAt(a).is_leaf \/ fuel = 0 THEN {depth}
    ELSE UNION {LeafDepths(c, depth + 1, fuel - 1) : c \in ChildAddrs(NodeAt(a))}

SortedNode(node) ==
    \A i, j \in DOMAIN node.keys :
        (i < j /\ j < node.num_keys) => node.keys[i] < node.keys[j]

\* what a search launched now and run alone would report
RECURSIVE Lookup(_, _, _)
Lookup(a, level, key) ==
    IF ~ReadAnswered(a) THEN [found |-> FALSE, value |-> 0]
    ELSE LET node == NodeAt(a)
         IN  IF ReachedLeaf(node, level) THEN SearchLeaf(node, key)
             ELSE Lookup(node.children[get_child_index_for_key(node, key)], level + 1, key)

\* the answers delivered by the step
Delivered == responses \ responses'

\* the step sent a request
Sent == last_req'.id # last_req.id

(***************************************************************************)
(* Properties                                                              *)
(***************************************************************************)

\* C1: read-after-write.  A search launched when the last insert of its key
\* has completed and no other insert of that key is in flight, before or
\* after the launch, reports the key found with the value of that insert.
C1_ReadAfterWrite ==
    (search_result.reported /\ search_result.exp_valid)
        => (search_result.found /\ search_result.value = search_result.exp_value)

\* C2: independence of inserts on distinct keys.  Once two inserts with
\* different keys, the only operations launched, have both completed, each
\* of the two keys is found from the root with the value of its insert.
C2_DistinctInsertsIndependent ==
    (/\ Quiescent
     /\ launched = 2
     /\ Cardinality({k \in Keys : ins_hist[k].launched = 1}) = 2)
        => \A k \in Keys :
              ins_hist[k].launched = 1
                 => /\ Lookup(root_address, 0, k).found
                    /\ Lookup(root_address, 0, k).value = ins_hist[k].last_value

\* C3: an insert that reaches a leaf already holding its key, whatever the
\* leaf's occupancy from 1 to btree_fanout, writes the leaf back at its own
\* address with the same number of keys, the key present exactly once and
\* carrying the new value, and allocates no node (it never splits).
C3_DuplicateInsertIsUpdate ==
    [][\A r \in Delivered :
          (/\ r.kind = "ReadResp"
           /\ r.id \in DOMAIN pending_ops
           /\ pending_ops[r.id].type = "INSERT"
           /\ pending_ops[r.id].split_phase = "NONE"
           /\ ReachedLeaf(deserialize_node(r.data), pending_ops[r.id].current_level)
           /\ deserialize_node(r.data).is_leaf
           /\ SortedNode(deserialize_node(r.data))
           /\ deserialize_node(r.data).num_keys \in 1..btree_fanout
           /\ pending_ops[r.id].key \in NodeKeys(deserialize_node(r.data)))
          => LET op == pending_ops[r.id]
                 leaf == deserialize_node(r.data)
                 written == deserialize_node(last_req'.data)
             IN  /\ next_node_id' = next_node_id
                 /\ Sent
                 /\ last_req'.kind = "Write"
                 /\ last_req'.address = leaf.node_address
                 /\ written.num_keys = leaf.num_keys
                 /\ Cardinality({i \in DOMAIN written.keys :
                                    i < written.num_keys /\ written.keys[i] = op.key}) = 1
                 /\ \A i \in DOMAIN written.keys :
                        (i < written.num_keys /\ written.keys[i] = op.key)
                            => written.values[i] = op.value
    ]_vars

\* C4: sortedness.  In every node the engine has written, the keys of the
\* positions below num_keys are strictly increasing.
C4_NodesSorted ==
    /\ \A a \in DOMAIN memory_blocks : SortedNode(NodeAt(a))
    /\ last_req.kind = "Write" => SortedNode(deserialize_node(last_req.data))

\* C5: separator correctness.  When no operation is in flight, for every
\* internal node reachable from the root and every key index i below its
\* num_keys, the keys stored under children[i] are below keys[i] and the keys
\* stored under children[i+1] are at least keys[i].
C5_SeparatorsCorrect ==
    Quiescent =>
        \A a \in ReachFrom(root_address, WalkDepth) :
            LET P == NodeAt(a)
            IN  ~P.is_leaf =>
                  \A i \in DOMAIN P.keys :
                      i < P.num_keys =>
                        /\ \A k \in SubtreeKeys(P.children[i]) : k < P.keys[i]
                        /\ \A k \in SubtreeKeys(P.children[i + 1]) : k >= P.keys[i]

\* C6: height uniformity.  After any sequence of inserts, with no operation
\* in flight, every leaf reachable from the root is tree_height - 1 child
\* hops below the root.
C6_LeavesAtHeight ==
    (Quiescent /\ \E k \in Keys : ins_hist[k].last_valid)
        => LeafDepths(root_address, 0, WalkDepth) \subseteq {tree_height - 1}

C8_RootPromotionMonotone ==
    [][/\ tree_height' >= tree_height
       /\ root_address' # root_address
            => \E r \in Delivered :
                  /\ r.kind = "WriteResp"
                  /\ r.id \in DOMAIN pending_ops
                  /\ pending_ops[r.id].is_root_split
                  /\ pending_ops[r.id].split_phase = "WRITE_NEW_NODE"
    ]_vars

\* a root split has finished and moved the root
C8_Witness ==
    /\ root_address # MEMORY_BASE_ADDRESS
    /\ tree_height > calculate_tree_height(key_range)

\* C9: root_address and tree_height change only in the step that delivers
\* the answer to the write of the new root.
C9_RootUpdatedAfterRootWrite ==
    [][(root_address' # root_address \/ tree_height' # tree_height)
          => \E r \in Delivered : r.kind = "WriteResp" /\ r.tag = "new_root"
    ]_vars

\* C10: root_address has the same value before and after every root split,
\* for every number of memory nodes.
C10_RootAddressStable ==
    [][root_address' = root_address]_vars

\* C11: an insert that finds its leaf full is not counted in the leaf
\* handler: no operation still in pending_ops has been counted, and the
\* operations-completed counter never exceeds the number of operations
\* launched (every operation adds exactly 1, at its end).
C11_CountedOnceAtEnd ==
    /\ \A id \in DOMAIN pending_ops : ~pending_ops[id].counted
    /\ stat_ops_completed <= launched

\* the record of a split that the step has just started
StartedSplits ==
    {id \in DOMAIN pending_ops' \ DOMAIN pending_ops :
        pending_ops'[id].split_phase = "WRITE_OLD_NODE"}

\* C12: for every non-root split, of a leaf or of an internal node, whose
\* operation has a traversal path of two nodes or more, parent_address is the
\* address of path[len-2], that node holds the address of the node being
\* split among its children, and it is not the node being split.
C12_PathParentIsParent ==
    [][\A id \in StartedSplits :
          LET op == pending_ops'[id]
          IN  (~op.is_root_split /\ Len(op.path) >= 2)
                 => /\ op.parent_address = op.path[Len(op.path) - 1].node_address
                    /\ op.old_node.node_address
                          \in ChildAddrs(op.path[Len(op.path) - 1])
                    /\ op.parent_address # op.old_node.node_address
    ]_vars

\* a step of the one operation in flight that leaves everything as it found
\* it but for the request id and the operation's level counter, which the
\* parent search never reads: the answer it waits for is the answer it got
RepeatingStep ==
    \E r \in Delivered :
        /\ r.kind = "ReadResp"
        /\ responses = {r}
        /\ DOMAIN pending_ops = {r.id}
        /\ pending_ops[r.id].split_phase = "READ_PARENT"
        /\ Sent
        /\ DOMAIN pending_ops' = {last_req'.id}
        /\ pending_ops'[last_req'.id]
              = [pending_ops[r.id] EXCEPT !.current_level = @ + 1,
                                          !.current_address = last_req'.address]
        /\ last_req'.address = pending_ops[r.id].current_address
        /\ responses' = {[r EXCEPT !.id = last_req'.id]}
        /\ memory_blocks' = memory_blocks
        /\ root_address' = root_address
        /\ tree_height' = tree_height
        /\ next_node_id' = next_node_id

\* C13: every launched operation terminates when every answer is delivered.
\* In particular no operation takes a step that it then has to repeat for
\* ever.
C13_OperationsTerminate ==
    [][~RepeatingStep]_vars

\* the order of the phases of a split; a full parent starts a split of its own
PhaseOrder ==
    { << "NONE", "WRITE_OLD_NODE" >>,
      << "WRITE_OLD_NODE", "WRITE_NEW_NODE" >>,
      << "WRITE_NEW_NODE", "READ_PARENT" >>,
      << "READ_PARENT", "READ_PARENT" >>,
      << "READ_PARENT", "UPDATE_PARENT_NODE" >>,
      << "READ_PARENT", "WRITE_OLD_NODE" >> }

\* the kind of answer that ends a phase
PhaseAnswer(phase) ==
    IF phase \in {"NONE", "READ_PARENT"} THEN "ReadResp" ELSE "WriteResp"

\* C14: a record enters a split phase only in the step that delivers the
\* answer to the request of the phase before it, along none -> write-old ->
\* write-new -> read-parent (re-entered while the parent is searched) ->
\* update-parent; a record of a split leaves pending_ops without a successor
\* only after write-new of a root split or after update-parent.
C14_SplitPhaseOrder ==
    [][/\ \A id \in DOMAIN pending_ops' \ DOMAIN pending_ops :
            pending_ops'[id].split_phase # "NONE"
               => \E r \in Delivered :
                     /\ r.id \in DOMAIN pending_ops
                     /\ r.id \notin DOMAIN pending_ops'
                     /\ r.kind = PhaseAnswer(pending_ops[r.id].split_phase)
                     /\ << pending_ops[r.id].split_phase, pending_ops'[id].split_phase >>
                           \in PhaseOrder
       /\ \A r \in Delivered :
            (/\ r.id \in DOMAIN pending_ops
             /\ pending_ops[r.id].split_phase # "NONE"
             /\ DOMAIN pending_ops' \ DOMAIN pending_ops = {})
               => \/ /\ pending_ops[r.id].split_phase = "WRITE_NEW_NODE"
                     /\ pending_ops[r.id].is_root_split
                     /\ Sent /\ last_req'.tag = "new_root"
                  \/ pending_ops[r.id].split_phase = "UPDATE_PARENT_NODE"
    ]_vars

\* a split has gone through every phase up to the write of its parent
C14_Witness ==
    \E id \in DOMAIN pending_ops :
        /\ pending_ops[id].split_phase = "UPDATE_PARENT_NODE"
        /\ \E r \in responses : r.id = id /\ r.kind = "WriteResp" /\ r.tag = "parent"

\* the addresses handed out so far: those of the nodes written, and those of
\* the nodes of the splits in flight, written or not yet
AllocatedAddrs ==
    DOMAIN memory_blocks
    \cup {pending_ops[x].new_node.node_address :
             x \in {y \in DOMAIN pending_ops : pending_ops[y].split_phase # "NONE"}}
    \cup {pending_ops[x].old_node.node_address :
             x \in {y \in DOMAIN pending_ops : pending_ops[y].split_phase # "NONE"}}

\* C15: unique addresses.  The address a split allocates for its new sibling
\* node, and the one a root split allocates for the relocated contents of
\* the old root, differ from every address allocated before and from each
\* other.
C15_UniqueAddresses ==
    [][\A id \in StartedSplits :
          LET op == pending_ops'[id]
          IN  /\ op.new_node.node_address \notin AllocatedAddrs
              /\ op.is_root_split
                    => /\ op.old_node.node_address \notin AllocatedAddrs
                       /\ op.old_node.node_address # op.new_node.node_address
    ]_vars

\* the nodes the splits in flight hold and serialize for their writes
SplitNodes ==
    UNION {{pending_ops[id].old_node, pending_ops[id].new_node} :
              id \in {x \in DOMAIN pending_ops : pending_ops[x].split_phase # "NONE"}}

\* C16: codec round-trip.  Deserializing the serialization of a node gives
\* the node back, equal in every field and in every slot of its key, value
\* and child arrays, whatever the arrays hold.
C16_CodecRoundTrip ==
    \A n \in SplitNodes : deserialize_node(serialize_node(n)) = n

\* C19: as long as no split has started (no node id beyond the root's has
\* been handed out) the tree is one leaf at the level-0 address of memory
\* node 0, empty until the first operation is launched, and tree_height is
\* 1, for every key_range.
C19_InitialHeightOne ==
    next_node_id = 1
        => /\ root_address = MEMORY_BASE_ADDRESS + BTREE_LEVEL0_OFFSET
           /\ NodeAt(root_address).is_leaf
           /\ launched = 0 => NodeAt(root_address).num_keys = 0
           /\ tree_height = 1

\* every node below the root holds floor(fanout/2) to fanout keys, and a
\* root that is not a leaf holds at least one
Occupancy ==
    /\ \A a \in ReachFrom(root_address, WalkDepth) \ {root_address} :
          /\ NodeAt(a).num_keys >= btree_fanout \div 2
          /\ NodeAt(a).num_keys <= btree_fanout
    /\ ~NodeAt(root_address).is_leaf => NodeAt(root_address).num_keys >= 1

\* C20: after inserts of distinct keys run one at a time the tree keeps the
\* occupancy bounds, and tree_height is the number of levels the inserts
\* have built (3 for the keys 1..21 with fanout 4).
C20_OccupancyAndHeight ==
    (Quiescent /\ launched >= 1)
        => /\ Occupancy
           /\ LeafDepths(root_address, 0, WalkDepth) = {tree_height - 1}

\* the requests that wait for their answer on behalf of an operation's
\* record; the write of the root at setup, the in-place write of a leaf and
\* the write of a new root are sent by write_node_back, which keeps no record
FinalWriteTags == {"init_root", "leaf", "new_root"}

OpNos(pending) == {pending[id].op_no : id \in DOMAIN pending}

\* the handler of the step ended the operation of the answer it consumed
Completes(r) ==
    r \in Delivered /\ (~Sent \/ last_req'.tag \in FinalWriteTags)

\* C17: between events the records of pending_ops and the operations in
\* flight correspond one to one: no two records belong to one operation,
\* each record is keyed by the id of an outstanding request, every
\* outstanding request that is not a final write has its record, no two
\* outstanding requests share an id, and an operation leaves pending_ops
\* only in the step that completes it, which leaves no record of it.
C17_OneRecordPerOperation ==
    [][/\ \A id1, id2 \in DOMAIN pending_ops' :
             pending_ops'[id1].op_no = pending_ops'[id2].op_no => id1 = id2
       /\ \A id \in DOMAIN pending_ops' : \E r \in responses' : r.id = id
       /\ \A r \in responses' : r.tag \notin FinalWriteTags => r.id \in DOMAIN pending_ops'
       /\ \A r1, r2 \in responses' : r1.id = r2.id => r1 = r2
       /\ OpNos(pending_ops') \subseteq 1..launched'
       /\ \A id \in DOMAIN pending_ops :
             pending_ops[id].op_no \notin OpNos(pending_ops')
                => \E r \in responses : r.id = id /\ Completes(r)
       /\ \A r \in Delivered : r.id \notin DOMAIN pending_ops'
    ]_vars

C17_Witness ==
    \E id1, id2 \in DOMAIN pending_ops :
        /\ id1 # id2
        /\ pending_ops[id1].split_phase # "NONE"
        /\ launched > Cardinality(DOMAIN pending_ops)

\* what handleMemoryEvent leaves in pending_ops for the answer r
HandledPending(r) ==
    IF r.kind = "ReadResp" THEN handle_read_response(r.id, r.data).pending
    ELSE handle_write_response(r.id).pending

\* C18: a step launches operations only at a tick at or before the
\* deadline; what it launches is a prefix of the queue, in queue order, of
\* operations whose timestamp is not after the time of the tick; the queue
\* loses exactly that prefix; and an answer delivered after the deadline is
\* handled as at any other time.
C18_TickLaunchesDueInOrder ==
    [][/\ launched' # launched
          => LET n == launched' - launched
             IN  /\ current_time' <= simulation_duration
                 /\ ~(current_time > simulation_duration)
                 /\ n >= 1 /\ n <= Len(pending_operations)
                 /\ pending_operations' =
                        SubSeq(pending_operations, n + 1, Len(pending_operations))
                 /\ \A i \in 1..n :
                       /\ pending_operations[i].timestamp <= current_time'
                       /\ (next_req_id + i - 1) \in DOMAIN pending_ops' \ DOMAIN pending_ops
                       /\ LET rec == pending_ops'[next_req_id + i - 1]
                          IN  /\ rec.op_no = launched + i
                              /\ rec.type = pending_operations[i].op_type
                              /\ rec.key = pending_operations[i].key
       /\ pending_operations' # pending_operations => launched' # launched
       /\ \A r \in Delivered :
             current_time > simulation_duration => pending_ops' = HandledPending(r)
    ]_vars

C18_Witness ==
    /\ ~clock_on
    /\ current_time > simulation_duration
    /\ launched >= 2
    /\ pending_operations # << >>
    /\ DOMAIN pending_ops # {}

\* C21: the step that delivers an answer whose request id has no record in
\* pending_ops changes no record, leaves root_address, tree_height and
\* next_node_id as they were and sends no request.
C21_UnknownCompletionDropped ==
    [][\A r \in Delivered :
          r.id \notin DOMAIN pending_ops
             => /\ pending_ops' = pending_ops
                /\ root_address' = root_address
                /\ tree_height' = tree_height
                /\ next_node_id' = next_node_id
                /\ ~Sent
                /\ next_req_id' = next_req_id
                /\ memory_blocks' = memory_blocks
                /\ responses' = responses \ {r}
    ]_vars

\* the answer to the in-place write of a leaf, which has no record, has been
\* delivered while another operation was in flight
C21_Witness ==
    /\ stat_ops_completed >= 1
    /\ DOMAIN pending_ops # {}
    /\ \A r \in responses : r.id \in DOMAIN pending_ops

\* the slab of memory node m
InSlab(m, address) ==
    /\ address >= MEMORY_BASE_ADDRESS + m * MEMORY_SERVER_SIZE
    /\ address < MEMORY_BASE_ADDRESS + (m + 1) * MEMORY_SERVER_SIZE

\* C22: a request for address a goes to channel (a - B) / S when a lies in
\* the slab of one of the N memory nodes, and to channel 0 for every other
\* address, those below B included.
C22_ChannelSelection ==
    probe.fn = "get_interface_for_address"
        => IF \E m \in 0..(num_memory_nodes - 1) : InSlab(m, probe.address)
           THEN /\ probe.channel = (probe.address - MEMORY_BASE_ADDRESS) \div MEMORY_SERVER_SIZE
                /\ InSlab(probe.channel, probe.address)
           ELSE probe.channel = 0

C22_Witness ==
    /\ probe.fn = "get_interface_for_address"
    /\ probe.address < MEMORY_BASE_ADDRESS
    /\ num_memory_nodes >= 2

\* C23: for every node id and level the address allocate_node_address
\* returns lies in the slab of memory node node_id mod N, so the channel
\* chosen for it is that node's; level 0 gives offset 0 in the slab.
C23_AllocatedInOwnSlab ==
    probe.fn = "allocate_node_address"
        => LET m == probe.node_id % num_memory_nodes
           IN  /\ InSlab(m, probe.address)
               /\ get_interface_for_address(probe.address) = m
               /\ probe.level = 0
                     => probe.address = MEMORY_BASE_ADDRESS + m * MEMORY_SERVER_SIZE

Zeros(size) == [p \in 1..size |-> 0]

\* C24: a read answers with exactly size words, zeros when nothing is stored
\* at the address and the stored words otherwise; a write to an address in
\* the memory node's slab is stored, and what is stored at an address
\* changes only by a write to that address.
C24_StoreReadsLastWrite ==
    [][/\ (probe'.fn = "handle_rdma_read"
           /\ is_address_in_range(probe'.server, probe'.address))
          => \E r \in probe'.answers :
                /\ Len(r.data) = probe'.size
                /\ probe'.address \notin DOMAIN memory_blocks' => r.data = Zeros(probe'.size)
                /\ (probe'.address \in DOMAIN memory_blocks'
                    /\ probe'.size <= Len(memory_blocks'[probe'.address]))
                      => r.data = SubSeq(memory_blocks'[probe'.address], 1, probe'.size)
       /\ (probe'.fn = "handle_rdma_write"
           /\ is_address_in_range(probe'.server, probe'.address))
          => /\ probe'.address \in DOMAIN memory_blocks'
             /\ memory_blocks'[probe'.address] = probe'.data
       /\ \A a \in DOMAIN memory_blocks :
             /\ a \in DOMAIN memory_blocks'
             /\ memory_blocks'[a] # memory_blocks[a]
                   => probe'.fn = "handle_rdma_write" /\ probe'.address = a
    ]_vars

LockOf(locks, address) == IF address \in DOMAIN locks THEN locks[address] ELSE NodeLock

\* C25: a write to a lock address with a payload p other than 0 makes p the
\* owner of a free lock and queues p behind the owner of a held one; a
\* write of 0 to a held lock frees it, or passes it to the requester that
\* has waited longest.
C25_LockProtocol ==
    [][(/\ probe' # probe
        /\ probe'.fn = "handle_rdma_write"
        /\ is_address_in_range(probe'.server, probe'.address)
        /\ is_lock_address(probe'.server, probe'.address))
          => LET before == LockOf(node_locks, probe'.address)
                 after == LockOf(node_locks', probe'.address)
                 p == probe'.data[1]
             IN  /\ (p # 0 /\ ~before.is_locked)
                       => after.is_locked /\ after.owner_id = p
                 /\ (p # 0 /\ before.is_locked)
                       => /\ after.is_locked /\ after.owner_id = before.owner_id
                          /\ after.waiting_queue = Append(before.waiting_queue, p)
                 /\ (p = 0 /\ before.is_locked)
                       => IF before.waiting_queue = << >>
                          THEN ~after.is_locked
                          ELSE /\ after.is_locked
                               /\ after.owner_id = Head(before.waiting_queue)
                               /\ after.waiting_queue = Tail(before.waiting_queue)
    ]_vars

\* C26: every read or write a memory node receives gets exactly one answer,
\* and the answer leaves through the interface the request came in by.
C26_OneAnswerOnSameInterface ==
    MemCall
        => /\ Cardinality(probe.answers) = 1
           /\ \A r \in probe.answers : r.interface = probe.interface

\* the traversal reads delivered by the step, with the record each belongs to
TraversalReads ==
    {r \in Delivered : /\ r.kind = "ReadResp"
                       /\ r.id \in DOMAIN pending_ops
                       /\ pending_ops[r.id].split_phase = "NONE"}

\* the index the spec gives: the smallest i below num_keys with key < keys[i]
SmallestGreater(node, key) ==
    LET gt == {i \in 0..(node.num_keys - 1) : key < node.keys[i]}
    IN  IF gt = {} THEN node.num_keys ELSE CHOOSE i \in gt : \A j \in gt : i <= j

\* C27: from an internal node the traversal goes on to children[i] for the
\* smallest i below num_keys with key < keys[i], or i = num_keys, so a key
\* equal to a separator goes right; and a split puts the keys below its
\* separator in the old (left) node and the others in the new (right) one.
C27_ChildIndexAndTieBreak ==
    [][/\ \A r \in TraversalReads :
             LET op == pending_ops[r.id]
                 node == deserialize_node(r.data)
                 i == SmallestGreater(node, op.key)
             IN  ~ReachedLeaf(node, op.current_level)
                    => /\ Sent /\ last_req'.kind = "Read"
                       /\ last_req'.address = node.children[i]
                       /\ \A j \in 0..(node.num_keys - 1) :
                             node.keys[j] = op.key => i > j
       /\ \A id \in StartedSplits :
             LET op == pending_ops'[id]
             IN  /\ \A k \in NodeKeys(op.old_node) : k < op.separator_key
                 /\ \A k \in NodeKeys(op.new_node) : k >= op.separator_key
    ]_vars

\* C28: a traversal read appends the node to the path; when the node is a
\* leaf or current_level >= tree_height - 1 the leaf handler runs (no
\* further read), the path is current_level + 1 long and the node is a
\* leaf; otherwise exactly one read of the chosen child is sent, one level
\* further down.
C28_TraversalReachesLeaf ==
    [][\A r \in TraversalReads :
          LET op == pending_ops[r.id]
              node == deserialize_node(r.data)
          IN  IF node.is_leaf \/ op.current_level >= tree_height - 1
              THEN /\ ~(Sent /\ last_req'.kind = "Read")
                   /\ Len(op.path) + 1 = op.current_level + 1
                   /\ node.is_leaf
              ELSE /\ Sent /\ last_req'.kind = "Read"
                   /\ next_req_id' = next_req_id + 1
                   /\ last_req'.id \in DOMAIN pending_ops'
                   /\ pending_ops'[last_req'.id] =
                         [op EXCEPT !.path = Append(op.path, node),
                                    !.current_level = op.current_level + 1,
                                    !.current_address = last_req'.address]
    ]_vars

\* the traversal reads of the step whose node the leaf handler gets
LeafReads(type) ==
    {r \in TraversalReads :
        /\ pending_ops[r.id].type = type
        /\ deserialize_node(r.data).is_leaf}

\* C29: a search that reaches a leaf with sorted keys reports found, with
\* values[i], exactly when its key is keys[i] for some i below num_keys; it
\* sends nothing, changes no tree metadata and no stored node, and is
\* completed in that step.
C29_SearchAtLeaf ==
    [][\A r \in LeafReads("SEARCH") :
          LET op == pending_ops[r.id]
              leaf == deserialize_node(r.data)
              at == {i \in 0..(leaf.num_keys - 1) : leaf.keys[i] = op.key}
          IN  SortedNode(leaf)
                 => /\ search_result'.reported /\ search_result'.key = op.key
                    /\ search_result'.found = (at # {})
                    /\ \A i \in at : search_result'.value = leaf.values[i]
                    /\ ~Sent /\ next_req_id' = next_req_id
                    /\ memory_blocks' = memory_blocks
                    /\ root_address' = root_address
                    /\ tree_height' = tree_height
                    /\ next_node_id' = next_node_id
                    /\ pending_ops' = MapDel(pending_ops, r.id)
                    /\ stat_ops_completed' = stat_ops_completed + 1
    ]_vars

\* a search has found a key stored by an insert launched after the first
C29_Witness ==
    /\ search_result.reported
    /\ search_result.found
    /\ search_result.value >= 2

\* the pairs of the first num_keys slots of a leaf
Pairs(leaf) == {<<leaf.keys[i], leaf.values[i]>> : i \in 0..(leaf.num_keys - 1)}

\* C30: an insert that reaches a sorted leaf with room writes the leaf back
\* to its own address: with the new pair added in sorted order and every
\* old pair kept when the key was absent, and with only the value of the
\* key replaced when it was present.
C30_InsertInPlace ==
    [][\A r \in LeafReads("INSERT") :
          LET op == pending_ops[r.id]
              leaf == deserialize_node(r.data)
              written == deserialize_node(last_req'.data)
          IN  (SortedNode(leaf) /\ leaf.num_keys < btree_fanout)
                 => /\ Sent /\ last_req'.kind = "Write"
                    /\ last_req'.address = leaf.node_address
                    /\ written.node_address = leaf.node_address
                    /\ written.is_leaf
                    /\ SortedNode(written)
                    /\ IF op.key \in NodeKeys(leaf)
                       THEN /\ written.num_keys = leaf.num_keys
                            /\ written.keys = leaf.keys
                            /\ \A i \in 0..(leaf.num_keys - 1) :
                                  written.values[i] =
                                      IF leaf.keys[i] = op.key THEN op.value
                                      ELSE leaf.values[i]
                       ELSE /\ written.num_keys = leaf.num_keys + 1
                            /\ Pairs(written) = Pairs(leaf) \cup {<<op.key, op.value>>}
    ]_vars

\* an in-place insert has put its pair in front of an older one
C30_Witness ==
    /\ last_req.kind = "Write" /\ last_req.tag = "leaf"
    /\ deserialize_node(last_req.data).num_keys >= 2
    /\ deserialize_node(last_req.data).values[0] > deserialize_node(last_req.data).values[1]

\* the first num_keys (key, value) pairs of a node, in slot order; a slot the
\* node's arrays do not have yields no pair
PairSeq(node) ==
    [i \in 1..node.num_keys |->
        IF (i - 1) \in DOMAIN node.keys /\ (i - 1) \in DOMAIN node.values
        THEN <<node.keys[i - 1], node.values[i - 1]>> ELSE << >>]

\* C31: a leaf split of a full sorted leaf with a new pair leaves the first
\* fanout/2 pairs in the old node and the other fanout+1-fanout/2 pairs in
\* the new node; the pairs of the two nodes, read in order, are the old
\* pairs and the new pair in key order, none lost, none twice, each key
\* with its value, and separator_key is the first key of the new node; for
\* every fanout from 1 on.
C31_LeafSplitPartition ==
    probe.fn = "split_leaf_async"
        => LET s == probe.fanout \div 2
               all == PairSeq(probe.old_node) \o PairSeq(probe.new_node)
               before == {PairSeq(probe.node)[i] : i \in 1..probe.node.num_keys}
           IN  /\ probe.old_node.num_keys = s
               /\ probe.new_node.num_keys = probe.fanout + 1 - s
               /\ \A i \in 1..Len(all) : Len(all[i]) = 2
               /\ \A i \in 1..(Len(all) - 1) : all[i][1] <= all[i + 1][1]
               /\ {all[i] : i \in 1..Len(all)}
                     = before \cup {<<probe.new_key, probe.new_value>>}
               /\ probe.separator_key = probe.new_node.keys[0]

\* the first num_keys keys and the first num_keys + 1 children of a node, in
\* slot order
KeySeq(node) == [i \in 1..node.num_keys |-> node.keys[i - 1]]

ChildSeq(node) == [j \in 1..(node.num_keys + 1) |-> node.children[j - 1]]

\* the sequence without the entries equal to x
RECURSIVE Without(_, _)
Without(seq, x) ==
    IF seq = << >> THEN << >>
    ELSE IF Head(seq) = x THEN Without(Tail(seq), x)
    ELSE <<Head(seq)>> \o Without(Tail(seq), x)

Count(seq, x) == Cardinality({i \in 1..Len(seq) : seq[i] = x})

\* C32: an internal split of a full sorted node with an incoming (key,
\* child) leaves fanout/2 keys and one more child in the old node and
\* fanout - fanout/2 keys and one more child in the new node; the old keys,
\* the promoted key and the new keys, read in order, are the fanout + 1 keys
\* in key order, so the promoted key is copied into neither node; the
\* children of the two nodes, read in order, are the old children in their
\* order with the incoming child once, right of the incoming key.
C32_InternalSplitPartition ==
    probe.fn = "split_internal_async"
        => LET s == probe.fanout \div 2
               all_keys == KeySeq(probe.old_node) \o <<probe.separator_key>>
                              \o KeySeq(probe.new_node)
               all_children == ChildSeq(probe.old_node) \o ChildSeq(probe.new_node)
           IN  /\ probe.old_node.num_keys = s
               /\ probe.new_node.num_keys = probe.fanout - s
               /\ ~probe.old_node.is_leaf /\ ~probe.new_node.is_leaf
               /\ Len(all_keys) = probe.fanout + 1
               /\ \A i \in 1..(Len(all_keys) - 1) : all_keys[i] <= all_keys[i + 1]
               /\ \A k \in SplitKeys :
                     Count(all_keys, k) = Count(KeySeq(probe.node), k)
                                          + (IF k = probe.new_key THEN 1 ELSE 0)
               /\ all_keys[s + 1] = probe.separator_key
               /\ Len(all_children) = probe.fanout + 2
               /\ Count(all_children, probe.new_child) = 1
               /\ Without(all_children, probe.new_child) = ChildSeq(probe.node)
               /\ \E i \in 1..Len(all_keys) :
                     all_keys[i] = probe.new_key /\ all_children[i + 1] = probe.new_child

\* an internal node of the largest fanout was split by a key smaller than
\* all of its keys, so that every old key and every old child but the first moved
C32_Witness ==
    /\ probe.fn = "split_internal_async"
    /\ probe.fanout = MaxSplitFanout
    /\ probe.new_key < probe.node.keys[0]
    /\ probe.old_node.children[1] = probe.new_child

\* the words of a payload: header fields and the three array regions
WireNumKeys(data) == data[1]

WireKey(data, i) == data[HeaderWords + i + 1]

WireChild(data, j) == data[HeaderWords + btree_fanout + btree_fanout + j + 1]

\* the answers to parent reads that the step takes for the parent itself:
\* the read was for a known parent address, or the node read is a leaf, or
\* the child the separator leads to is one of the two split nodes
ParentReads ==
    {r \in Delivered :
        /\ r.kind = "ReadResp" /\ r.id \in DOMAIN pending_ops
        /\ pending_ops[r.id].split_phase = "READ_PARENT"
        /\ LET op == pending_ops[r.id]
               parent == deserialize_node(r.data)
               pos == Cardinality({i \in 0..(parent.num_keys - 1) :
                                      parent.keys[i] < op.separator_key})
           IN  \/ op.parent_address # 0
               \/ parent.is_leaf
               \/ parent.children[pos] \in {op.old_node.node_address,
                                            op.new_node.node_address}}

RootSplitWrites ==
    {r \in Delivered :
        /\ r.kind = "WriteResp" /\ r.id \in DOMAIN pending_ops
        /\ pending_ops[r.id].type \in {"SPLIT_LEAF", "SPLIT_INTERNAL"}
        /\ pending_ops[r.id].split_phase = "WRITE_NEW_NODE"
        /\ pending_ops[r.id].is_root_split}

\* C34: a root split writes a new root that is internal and has one key,
\* the separator of the split, with the relocated old node as children[0]
\* and the new node as children[1], and tree_height grows by exactly 1; the
\* split of a root that was a leaf, the first split of a tree, leaves a
\* tree of height 2 whose root key is the first key of the new leaf.
C34_RootSplit ==
    [][\A r \in RootSplitWrites :
          LET op == pending_ops[r.id]
              new_root == deserialize_node(last_req'.data)
          IN  /\ Sent /\ last_req'.kind = "Write"
              /\ ~new_root.is_leaf
              /\ new_root.num_keys = 1
              /\ new_root.keys[0] = op.separator_key
              /\ new_root.children[0] = op.old_node.node_address
              /\ new_root.children[1] = op.new_node.node_address
              /\ last_req'.address = new_root.node_address
              /\ root_address' = new_root.node_address
              /\ tree_height' = tree_height + 1
              /\ op.old_node.is_leaf
                    => /\ tree_height' = 2
                       /\ new_root.keys[0] = op.new_node.keys[0]
                       /\ op.old_node.num_keys = btree_fanout \div 2
                       /\ op.new_node.num_keys = btree_fanout + 1 - btree_fanout \div 2
    ]_vars

\* the answers read while an operation looks for a parent it does not know
ParentSearchReads ==
    {r \in Delivered :
        /\ r.kind = "ReadResp" /\ r.id \in DOMAIN pending_ops
        /\ pending_ops[r.id].split_phase = "READ_PARENT"
        /\ pending_ops[r.id].parent_address = 0}

\* C35: a non-root split whose path has fewer than 2 nodes starts with
\* parent_address 0; when its write-new phase completes it reads the root
\* in the read-parent phase; and that search for the parent goes on by one
\* child read per node unless the node read is internal and the child the
\* separator leads to is the old or the new node of the split: only such a
\* node gets the separator, never a leaf.
C35_ParentSearch ==
    [][/\ \A id \in StartedSplits :
             LET op == pending_ops'[id]
             IN  (~op.is_root_split /\ Len(op.path) < 2) => op.parent_address = 0
       /\ \A r \in Delivered :
             (/\ r.kind = "WriteResp" /\ r.id \in DOMAIN pending_ops
              /\ pending_ops[r.id].type \in {"SPLIT_LEAF", "SPLIT_INTERNAL"}
              /\ pending_ops[r.id].split_phase = "WRITE_NEW_NODE"
              /\ ~pending_ops[r.id].is_root_split
              /\ pending_ops[r.id].parent_address = 0)
                 => /\ Sent /\ last_req'.kind = "Read"
                    /\ last_req'.address = root_address
                    /\ pending_ops'[last_req'.id].split_phase = "READ_PARENT"
                    /\ pending_ops'[last_req'.id].separator_key
                          = pending_ops[r.id].separator_key
       /\ \A r \in ParentSearchReads :
             LET op == pending_ops[r.id]
                 node == deserialize_node(r.data)
                 child == node.children[InsertPos(node, op.separator_key)]
                 is_parent == /\ ~node.is_leaf
                              /\ child \in {op.old_node.node_address,
                                            op.new_node.node_address}
             IN  /\ Sent
                 /\ is_parent <=> last_req'.kind = "Write"
                 /\ ~is_parent => /\ last_req'.kind = "Read"
                                  /\ last_req'.address = child
    ]_vars

\* the offset of an address inside the slab it falls in
SlabOffset(address) == (address - MEMORY_BASE_ADDRESS) % MEMORY_SERVER_SIZE

\* the addresses of the stored tree at a level, the root being level 0
RECURSIVE NodesAtLevel(_)
NodesAtLevel(level) ==
    IF level = 0 THEN {root_address}
    ELSE UNION {ChildAddrs(NodeAt(a)) :
                   a \in {x \in NodesAtLevel(level - 1) :
                             x \in DOMAIN memory_blocks /\ ~NodeAt(x).is_leaf}}

\* the levels a node split in place will share with its new sibling; a root
\* that is split goes one level down with it
SplitLevels(op) ==
    IF op.is_root_split THEN {1}
    ELSE {l \in 0..WalkDepth : op.old_node.node_address \in NodesAtLevel(l)}

InBandOf(level, address) ==
    /\ SlabOffset(address) >= BTREE_LEVEL1_OFFSET * level
    /\ SlabOffset(address) < BTREE_LEVEL1_OFFSET * (level + 1)

\* C36: the level of a node decides its band: the new node of an internal
\* split, and the old node when the split moves it, lie in the internal
\* band of the level they are at, below the leaf band, and the new node of
\* a leaf split lies in the leaf band whenever the tree has more than one
\* level.
C36_BandsByLevel ==
    [][\A id \in StartedSplits :
          LET op == pending_ops'[id]
          IN  /\ op.type = "SPLIT_INTERNAL"
                    => /\ SlabOffset(op.new_node.node_address) < BTREE_LEAF_OFFSET
                       /\ \A l \in SplitLevels(op) :
                             InBandOf(l, op.new_node.node_address)
                       /\ op.is_root_split
                             => /\ SlabOffset(op.old_node.node_address) < BTREE_LEAF_OFFSET
                                /\ InBandOf(1, op.old_node.node_address)
              /\ (op.type = "SPLIT_LEAF" /\ tree_height > 1)
                    => SlabOffset(op.new_node.node_address) >= BTREE_LEAF_OFFSET
    ]_vars

\* C37: a read answer whose payload is shorter than a node header decodes
\* to the default node (no keys, a leaf, address 0), and the traversal that
\* gets it treats it as an empty leaf: a search reports its key as not
\* found and completes in that step, sending nothing.
C37_ShortPayloadIsEmptyLeaf ==
    [][\A r \in TraversalReads :
          Len(r.data) < HeaderWords
             => LET op == pending_ops[r.id]
                    node == deserialize_node(r.data)
                IN  /\ node.num_keys = 0 /\ node.is_leaf /\ node.node_address = 0
                    /\ node = BTreeNode
                    /\ op.type = "SEARCH"
                          => /\ search_result'.reported
                             /\ search_result'.key = op.key
                             /\ ~search_result'.found
                             /\ ~Sent
                             /\ pending_ops' = MapDel(pending_ops, r.id)
                             /\ stat_ops_completed' = stat_ops_completed + 1
                             /\ memory_blocks' = memory_blocks
    ]_vars

\* a search for a key that is stored has got a short payload and reported
\* the key as not found
C37_Witness ==
    /\ search_result.reported /\ ~search_result.found
    /\ search_result.exp_valid
    /\ \E r \in responses : r.kind = "ReadResp" /\ Len(r.data) < HeaderWords

\* C38: no address that allocate_node_address returns, for any node id,
\* level and fanout, lies in the lock sub-range of a memory node, so that a
\* node written there is stored and not taken for a lock request.
C38_NoNodeInLockRegion ==
    probe.fn = "allocate_node_address"
        => /\ \A m \in 0..(num_memory_nodes - 1) : ~is_lock_address(m, probe.address)
           /\ LET data == serialize_node([BTreeNode EXCEPT !.node_address = probe.address])
              IN  WriteAnswered(probe.address)
                     => read_memory(write_memory(memory_blocks, probe.address, data),
                                    probe.address) = data

\* C39: every read and write the engine has issued went to an address of
\* some memory node's slab, B <= address < B + N*S; none went to address 0.
C39_RequestsInRange ==
    /\ last_req.address >= MEMORY_BASE_ADDRESS
    /\ last_req.address < MEMORY_BASE_ADDRESS + num_memory_nodes * MEMORY_SERVER_SIZE
    /\ last_req.address # 0

\* the address field of a payload
WireAddress(data) == data[HeaderWords]

\* C40: every node the engine writes goes to the address in its own address
\* field, so every stored node carries the address it is stored at, the
\* moved old root and the new root of a root split included.
C40_StoredAtOwnAddress ==
    /\ last_req.kind = "Write" => WireAddress(last_req.data) = last_req.address
    /\ \A a \in DOMAIN memory_blocks :
          /\ WireAddress(memory_blocks[a]) = a
          /\ NodeAt(a).node_address = a

\* a root split is finished: the root is internal and its two children, the
\* moved old root and the new node, are stored at addresses of their own
C40_Witness ==
    /\ ~NodeAt(root_address).is_leaf
    /\ NodeAt(root_address).num_keys = 1
    /\ LET old == NodeAt(root_address).children[0]
           new == NodeAt(root_address).children[1]
       IN  /\ old \in DOMAIN memory_blocks /\ new \in DOMAIN memory_blocks
           /\ Cardinality({root_address, old, new}) = 3
           /\ NodeAt(old).num_keys > 0 /\ NodeAt(new).num_keys > 0

=============================================================================
